---- MODULE Spec2Model ----
(***************************************************************************)
(* Sentinyl: the dead-man's-switch protocol (control plane in              *)
(* backend/main.py, host agent in agent/sentinyl_guard_agent.py) and the   *)
(* scan-job pipeline (ingress in backend/main.py, workers in workers/).    *)
(*                                                                         *)
(* Time is counted in ticks of 1/TicksPerSecond second.  The clock visits  *)
(* the instants at which the handlers' comparisons can change outcome: the *)
(* instants at which alerts are submitted, the agent's first wake-up, and  *)
(* the instants around each countdown expiry.                              *)
(***************************************************************************)
EXTENDS Integers, Sequences, FiniteSets, TLC

\* ---------------------------------------------------------------- bounds
TicksPerSecond == 2
MaxAlertTime == 1
MaxEvents == 1
MaxFleetEvents == 4
MaxVariations == 3
MaxKeywords == 2
MaxLag == 1
MaxJobs == 2
MaxCandidates == 2
MaxAdmitted == 6
GhostEpoch == 20
MaxKnockTime == 6
MaxAgeDays == 31
MaxDomainLen == 5

\* ------------------------------------------------------ program constants
COUNTDOWN_SECONDS == 300
COUNTDOWN_DURATION == 300
POLL_INTERVAL == 30
STATUS_CHECK_INTERVAL == 15
GUARD_LITE_AGENT_QUOTA == 3
DNS_MAX_RETRIES == 2
DNS_RETRY_DELAY == 1
LOW_BUDGET == 5
FALLBACK_WAIT == 300
SEARCH_PAUSE == 2
SECONDARY_WAIT == 60
FREE_SCAN_QUOTA == 5
BILLING_CYCLE_DAYS == 30
TIMESTAMP_TOLERANCE == 10
RATE_LIMIT_WINDOW == 5
WHITELIST_DURATION == 60
WEIGHT_VISIBILITY == 40
WEIGHT_AGE == 30
WEIGHT_ASSET_VALUE == 30
THRESHOLD_CRITICAL == 80
THRESHOLD_HIGH == 60
THRESHOLD_MEDIUM == 40

Seconds(n) == n * TicksPerSecond

\* get_user_subscription: billing_cycle_end = utcnow() + timedelta(days=30)
BillingCycle == Seconds(BILLING_CYCLE_DAYS * 24 * 60 * 60)

NULL == "NULL"
NoTime == -1

\* The host agent process and a second agent id known to the control plane.
AGENT_ID == "agent-1"
AgentIds == {AGENT_ID, "agent-2"}

\* One agent more than the guard_lite quota admits.
FleetIds == AgentIds \cup {"agent-3", "agent-4"}
FleetIp == "185.220.101.1"

\* Remaining core budgets around the threshold, and seconds until the reset.
Budgets == {0, 4, 5}
ResetIns == {120, 3600}
TargetIps == {"185.220.101.1"}
AdminUsers == {"alice", "bob"}
Verdicts == {"safe", "block"}

\* Bearer credentials of a request: none, or the API key of a user.
GuardUser == "u-guard"
FreeUser == "u-free"
Users == {GuardUser, FreeUser}
Credentials == {"none"} \cup Users

\* Local time zone of the control-plane host: a zone without offset changes,
\* or a zone (standard offset 0) that moves its clocks forward by DstShift at
\* the wall-clock instant DstStart.
Zones == {"UTC", "DST"}
DstShift == Seconds(60 * 60)
DstStart == Seconds(COUNTDOWN_SECONDS) \div 2

VARIABLES
    now,               \* wall clock (UTC), in ticks
    server_tz,         \* local zone of the control-plane host
    subscriptions,     \* user -> [tier, scan_quota, agent_quota, scan_used]
    guard_agents,      \* agent id -> [user_id, last_heartbeat, active]
    guard_events,      \* sequence of GuardEvent rows; the id is the index
    queue_guard,       \* queue:guard, head of the sequence = LPUSH end
    active_events,     \* DeadManSwitch.active_events: id -> [target_ip, expires_at]
    last_status_check, \* main(): last_status_check
    agent_pc,          \* position of the agent loop ("off": no agent process)
    wake_at,           \* end of the agent's time.sleep (NoTime when awake)
    iptables,          \* rules installed on the agent host
    tracked,           \* history: event ids the agent has recorded
    acted,             \* history: event ids the agent discarded as safe or blocked
    block_invoked,     \* history: event ids for which execute_block was invoked
    outage,            \* history: some agent request did not reach the control plane
    req,               \* the last request handled by the control plane
    resp,              \* its response
    domains,           \* domains table: domain name -> [user_id]
    scan_jobs,         \* sequence of ScanJob rows; the id is the index
    queues,            \* scan type -> queue:<type>, head = LPUSH end
    workers,           \* worker -> [pc, job_id, remaining, finding_errors, store_failed]
    gate,              \* ingress process -> its position inside check_scan_quota
    admitted,          \* history: user -> requests admitted past the quota check
    ghost_clock,       \* time.time() on the knock server's host, in ticks
    knock_times,       \* GhostServer.knock_times: source ip -> last accepted knock
    ghost_whitelist,   \* the ipset ghost_whitelist: ip -> expiry
    firewall_cmds,     \* ipset commands open_firewall has composed
    knock,             \* the last packet handled and validate_knock's result
    accepted_at,       \* history: source ip -> clock readings of its accepted knocks
    neo4j,             \* the graph service: "up", "down" or "auth" (credentials refused)
    smart,             \* the SmartAlert instance: its graph driver and how it was built
    graph_db,          \* nodes held by the graph service
    alert,             \* the last call into the enrichment code and its result
    fuzz,              \* the last DomainFuzzer built and its variations
    scanned,           \* history of scan(): per variation, the DNS queries made and the outcome
    searched           \* history of search_github_code(): per keyword, the budget reads and the sleep

scan_vars == <<domains, scan_jobs, queues, workers>>

quota_vars == <<gate, admitted>>

ghost_vars == <<ghost_clock, knock_times, ghost_whitelist, firewall_cmds, knock,
                accepted_at>>

alert_vars == <<neo4j, smart, graph_db, alert>>

probe_vars == <<fuzz, scanned, searched>>

side_vars == <<quota_vars, ghost_vars, alert_vars, probe_vars>>

guard_vars == <<now, server_tz, subscriptions, guard_agents, guard_events,
                queue_guard, active_events, last_status_check, agent_pc, wake_at,
                iptables, tracked, acted, block_invoked, outage, req, resp>>

\* ------------------------------------------------------------ time zone
\* datetime.timestamp() of a naive datetime: the value is read as local time.
\* A wall-clock value inside the skipped hour is read with the standard offset.
Timestamp(tz, t) ==
    IF tz = "DST" /\ t >= DstStart + DstShift THEN t - DstShift ELSE t

\* datetime.fromtimestamp(): epoch seconds to naive local time.
FromTimestamp(tz, e) ==
    IF tz = "DST" /\ e >= DstStart THEN e + DstShift ELSE e

\* countdown_expires computed by receive_guard_alert from countdown_start.
CountdownExpires(tz, countdown_start) ==
    FromTimestamp(tz, Timestamp(tz, countdown_start) + Seconds(COUNTDOWN_SECONDS))

\* The instants the clock visits.
AlertInstants == 0..MaxAlertTime
WakeInstants == {Seconds(POLL_INTERVAL) + k : k \in AlertInstants}
ExpiryInstants(tz) ==
    {CountdownExpires(tz, s) + k : s \in AlertInstants,
                                   k \in (0 - TicksPerSecond - 1)..1}
\* One instant after every wake-up that follows a poll made around an expiry.
LateInstant(tz) ==
    CountdownExpires(tz, MaxAlertTime) + 1 + MaxLag + Seconds(POLL_INTERVAL)
ClockInstants(tz) ==
    AlertInstants \cup WakeInstants \cup ExpiryInstants(tz) \cup {LateInstant(tz)}

\* The time that can pass between two clock reads of one request handler.
Lags(tz, t) == {lag \in 0..MaxLag : t + lag \in ClockInstants(tz)}


\* ---------------------------------------------------------------- helpers
Max(a, b) == IF a >= b THEN a ELSE b

\* Python int() of a quotient: truncation toward zero.
IntTrunc(n, d) == IF n >= 0 THEN n \div d ELSE 0 - ((0 - n) \div d)

EventIds == 1..Len(guard_events)

\* Ids of a set in descending order (order_by(created_at.desc())).
RECURSIVE Descending(_)
Descending(S) ==
    IF S = {} THEN <<>>
    ELSE LET m == CHOOSE x \in S : \A y \in S : y <= x
         IN <<m>> \o Descending(S \ {m})

Range(f) == {f[i] : i \in DOMAIN f}

\* ------------------------------------------------- authorization (auth.py)
\* get_current_user: 401 without a valid bearer key.
GetCurrentUser(cred) == IF cred \in Users THEN 200 ELSE 401

\* RequiresTier.__call__: 403 when the subscription's tier is not allowed.
RequiresTier(allowed_tiers, cred) ==
    IF GetCurrentUser(cred) # 200 THEN 401
    ELSE IF subscriptions[cred].tier \notin allowed_tiers THEN 403
    ELSE 200

RequiresGuard(cred) == RequiresTier({"guard_lite", "full_stack"}, cred)

\* check_agent_quota: 402 when the user's active agents reach agent_quota.
CheckAgentQuota(cred) ==
    LET active_agents == Cardinality({a \in DOMAIN guard_agents :
                             guard_agents[a].user_id = cred /\ guard_agents[a].active})
    IN  IF subscriptions[cred].agent_quota = 0 THEN 200
        ELSE IF active_agents >= subscriptions[cred].agent_quota THEN 402
        ELSE 200

\* ----------------------------------------------- POST /guard/alert (main.py)
\* The handler's effect on the store and the queue, and its response.
ReceiveGuardAlert(agent_id, target_ip, cred, redis_ok) ==
    LET unchanged(code) == [status |-> code, event_id |-> 0, agents |-> guard_agents,
                            events |-> guard_events, queue |-> queue_guard]
        agents2 == IF agent_id \in DOMAIN guard_agents
                   THEN [guard_agents EXCEPT ![agent_id].last_heartbeat = now]
                   ELSE guard_agents @@
                        (agent_id :> [user_id |-> cred, last_heartbeat |-> now,
                                      active |-> TRUE])
        countdown_start == now
        event == [agent_id |-> agent_id,
                  target_ip |-> target_ip,
                  countdown_started_at |-> countdown_start,
                  countdown_expires_at |-> CountdownExpires(server_tz, countdown_start),
                  admin_response |-> NULL,
                  admin_user |-> NULL,
                  responded_at |-> NoTime,
                  blocked |-> FALSE]
        events2 == Append(guard_events, event)
        event_id == Len(events2)
    IN  IF RequiresGuard(cred) # 200 THEN unchanged(RequiresGuard(cred))
        ELSE IF CheckAgentQuota(cred) # 200 THEN unchanged(402)
        ELSE IF redis_ok
             THEN [status |-> 202, event_id |-> event_id, agents |-> agents2,
                   events |-> events2, queue |-> <<event_id>> \o queue_guard]
             ELSE [status |-> 500, event_id |-> 0, agents |-> agents2,
                   events |-> events2, queue |-> queue_guard]

\* -------------------------------------------- POST /guard/response (main.py)
\* event_id 0 stands for a string that is no UUID.
ReceiveAdminResponse(event_id, response, admin_user) ==
    LET event == guard_events[event_id]
        event2 == [event EXCEPT !.admin_response = response,
                                !.admin_user = admin_user,
                                !.responded_at = now,
                                !.blocked = IF response = "block" THEN TRUE ELSE @]
    IN  IF event_id = 0 THEN [status |-> 400, events |-> guard_events]
        ELSE IF response \notin {"safe", "block"}
             THEN [status |-> 400, events |-> guard_events]
        ELSE IF event_id \notin EventIds THEN [status |-> 404, events |-> guard_events]
        ELSE [status |-> 200, events |-> [guard_events EXCEPT ![event_id] = event2]]

\* ------------------------------------- GET /guard/status/{agent_id} (main.py)
\* t_query is the utcnow() of the query filter, t_loop the utcnow() read in the
\* loop over the selected events.
SelectedEvents(agent_id, t_query) ==
    {id \in EventIds : /\ guard_events[id].agent_id = agent_id
                       /\ guard_events[id].countdown_expires_at > t_query}

CountdownRemaining(event, t_loop) ==
    Max(0, IntTrunc(event.countdown_expires_at - t_loop, TicksPerSecond))

AutoBlock(event, t_loop) ==
    event.admin_response = NULL /\ CountdownRemaining(event, t_loop) = 0

ShouldBlock(event, t_loop) ==
    IF event.admin_response = "block" THEN TRUE ELSE AutoBlock(event, t_loop)

GuardEventStatus(id, t_loop) ==
    [event_id |-> id,
     admin_response |-> guard_events[id].admin_response,
     countdown_remaining |-> CountdownRemaining(guard_events[id], t_loop),
     should_block |-> ShouldBlock(guard_events[id], t_loop)]

GetGuardStatus(agent_id, t_query, t_loop) ==
    LET selected == SelectedEvents(agent_id, t_query)
        order == Descending(selected)
    IN  IF agent_id \notin AgentIds THEN [status |-> 400, events |-> <<>>,
                                          rows |-> guard_events]
        ELSE [status |-> 200,
              events |-> [i \in 1..Len(order) |-> GuardEventStatus(order[i], t_loop)],
              rows |-> [id \in EventIds |->
                          IF id \in selected /\ AutoBlock(guard_events[id], t_loop)
                          THEN [guard_events[id] EXCEPT !.blocked = TRUE]
                          ELSE guard_events[id]]]


\* ------------------------------------------------ host agent (agent/*.py)
Chains == {"INPUT", "OUTPUT"}

\* A block that drops the traffic of every address the detectors know.
ExecuteBlockAll(id, anomaly, ok_chains) ==
    {[chain |-> c, ip |-> ip, target |-> "DROP", event |-> id] :
         c \in ok_chains, ip \in TargetIps}

\* execute_block: the rules appended for one anomaly; ok_chains are the chains
\* whose iptables command returned 0.  No rule without a target_ip.
ExecuteBlock(id, anomaly, ok_chains) ==
    IF anomaly.target_ip = NULL THEN {}
    ELSE {[chain |-> c, ip |-> anomaly.target_ip, target |-> "DROP", event |-> id] :
              c \in ok_chains}

\* check_for_override, the loop over the returned events: what the agent does
\* with each returned event it tracks.
MarkedSafe(events) ==
    {st.event_id : st \in {x \in Range(events) :
        x.event_id \in DOMAIN active_events /\ x.admin_response = "safe"}}

\* A loop that blocks on any verdict, the safe one included.
ToBlockOnVerdict(events) ==
    {st.event_id : st \in {x \in Range(events) :
        /\ x.event_id \in DOMAIN active_events
        /\ (x.should_block \/ x.admin_response = "safe")}}

ToBlock(events) ==
    {st.event_id : st \in {x \in Range(events) :
        /\ x.event_id \in DOMAIN active_events
        /\ x.admin_response # "safe"
        /\ x.should_block}}

\* check_for_override, the clean-up of expired local records at time t.
LocallyExpired(kept, t) == {id \in kept : active_events[id].expires_at < t}

Restrict(f, S) == [x \in S |-> f[x]]

NextPc(pc) == CASE pc = "geo" -> "process"
                [] pc = "process" -> "resource"
                [] pc = "resource" -> "check"
                [] OTHER -> "sleep"

\* The target of an anomaly found by each detector: only geo anomalies carry one.
AnomalyTargets(pc) == IF pc = "geo" THEN TargetIps ELSE {NULL}

agent_vars == <<active_events, last_status_check, agent_pc, wake_at, iptables,
                tracked, acted, block_invoked, outage>>
store_vars == <<subscriptions, guard_agents, guard_events, queue_guard>>

\* ---------------------------------------------------------------- actions
NoRequest == [op |-> "none"]
NoResponse == [status |-> 0]

\* How far the clock may move while the agent loop runs: a sleeping agent wakes
\* at the first instant at or after wake_at, and at most a second passes
\* between two steps of one scan cycle.
AgentAllows(t) ==
    CASE agent_pc = "off" -> TRUE
      [] agent_pc = "sleep" ->
           /\ now < wake_at
           /\ \A u \in ClockInstants(server_tz) : (u >= wake_at) => (t <= u)
      [] OTHER -> t <= now + TicksPerSecond

\* The clock moves to a later instant; the last exchange is over.
Tick ==
    /\ \E t \in ClockInstants(server_tz) : t > now /\ AgentAllows(t) /\ now' = t
    /\ req' = NoRequest
    /\ resp' = NoResponse
    /\ UNCHANGED <<scan_vars, side_vars>>
    /\ UNCHANGED <<server_tz, store_vars, agent_vars>>

\* main(): a detector finds nothing.
AgentNoAnomaly ==
    /\ agent_pc \in {"geo", "process", "resource"}
    /\ agent_pc' = NextPc(agent_pc)
    /\ UNCHANGED <<scan_vars, side_vars>>
    /\ UNCHANGED <<now, server_tz, store_vars, active_events, last_status_check,
                   wake_at, iptables, tracked, acted, block_invoked, outage, req, resp>>

\* main() -> send_alert: a detector finds an anomaly and the agent posts it.
\* send_alert sets no Authorization header itself; the header the ingress
\* receives with the request is an input here, so that rejected and accepted
\* alerts are both covered.
AgentSendAlertCall(ip, cred, redis_ok, reachable) ==
    /\ agent_pc \in {"geo", "process", "resource"}
    /\ Len(guard_events) < MaxEvents
    /\ now <= MaxAlertTime
    /\ ip \in AnomalyTargets(agent_pc)
    /\ LET r == ReceiveGuardAlert(AGENT_ID, ip, cred, redis_ok) IN
         IF reachable
         THEN /\ guard_agents' = r.agents
              /\ guard_events' = r.events
              /\ queue_guard' = r.queue
              /\ req' = [op |-> "alert", agent_id |-> AGENT_ID]
              /\ resp' = [status |-> r.status, event_id |-> r.event_id]
              /\ active_events' =
                   IF r.status = 202
                   THEN active_events @@ (r.event_id :>
                          [target_ip |-> ip,
                           expires_at |-> now + Seconds(COUNTDOWN_DURATION)])
                   ELSE active_events
              /\ tracked' = IF r.status = 202 THEN tracked \cup {r.event_id} ELSE tracked
              /\ UNCHANGED outage
         ELSE /\ outage' = TRUE
              /\ UNCHANGED <<guard_agents, guard_events, queue_guard, req, resp,
                             active_events, tracked>>
    /\ agent_pc' = NextPc(agent_pc)
    /\ UNCHANGED <<scan_vars, side_vars>>
    /\ UNCHANGED <<now, server_tz, subscriptions, last_status_check, wake_at,
                   iptables, acted, block_invoked>>

AgentSendAlert ==
    \E ip \in TargetIps \cup {NULL}, cred \in Credentials, redis_ok \in BOOLEAN,
       reachable \in BOOLEAN :
        AgentSendAlertCall(ip, cred, redis_ok, reachable)

\* send_alert's requests.post carries the JSON payload and a timeout, and no
\* Authorization header.
SentCredentials == "none"

\* POST /guard/alert from any client holding an agent id.
ClientAlert ==
    /\ Len(guard_events) < MaxEvents
    /\ now <= MaxAlertTime
    /\ \E agent_id \in AgentIds, ip \in TargetIps \cup {NULL},
          cred \in Credentials, redis_ok \in BOOLEAN :
         LET r == ReceiveGuardAlert(agent_id, ip, cred, redis_ok) IN
         /\ guard_agents' = r.agents
         /\ guard_events' = r.events
         /\ queue_guard' = r.queue
         /\ req' = [op |-> "alert", agent_id |-> agent_id]
         /\ resp' = [status |-> r.status, event_id |-> r.event_id]
    /\ UNCHANGED <<scan_vars, side_vars>>
    /\ UNCHANGED <<now, server_tz, subscriptions, agent_vars>>

\* POST /guard/response: the operator's verdict.
AdminResponseCall(event_id, response, admin_user) ==
    LET r == ReceiveAdminResponse(event_id, response, admin_user) IN
    /\ guard_events' = r.events
    /\ req' = [op |-> "response", event_id |-> event_id]
    /\ resp' = [status |-> r.status]
    /\ UNCHANGED <<scan_vars, side_vars>>
    /\ UNCHANGED <<now, server_tz, subscriptions, guard_agents, queue_guard, agent_vars>>

AdminResponse ==
    \E event_id \in 0..MaxEvents, response \in Verdicts \cup {"ignore"},
       admin_user \in AdminUsers :
         AdminResponseCall(event_id, response, admin_user)

\* GET /guard/status/{agent_id} from any client.
PollStatus ==
    /\ \E agent_id \in AgentIds \cup {"not-a-uuid"}, lag \in Lags(server_tz, now) :
         LET r == GetGuardStatus(agent_id, now, now + lag) IN
         /\ guard_events' = r.rows
         /\ req' = [op |-> "status", agent_id |-> agent_id, at |-> now]
         /\ resp' = [status |-> r.status, events |-> r.events]
         /\ now' = now + lag
    /\ UNCHANGED <<scan_vars, side_vars>>
    /\ UNCHANGED <<server_tz, subscriptions, guard_agents, queue_guard, agent_vars>>

StatusCheckDue == now - last_status_check >= Seconds(STATUS_CHECK_INTERVAL)

\* main(): the status check is not due yet; the loop goes to sleep.
AgentSkipCheck ==
    /\ agent_pc = "check"
    /\ ~StatusCheckDue
    /\ agent_pc' = "sleep"
    /\ wake_at' = now + Seconds(POLL_INTERVAL)
    /\ UNCHANGED <<scan_vars, side_vars>>
    /\ UNCHANGED <<now, server_tz, store_vars, active_events, last_status_check,
                   iptables, tracked, acted, block_invoked, outage, req, resp>>

\* main() -> check_for_override: poll, act on each returned event, clean up.
AgentCheckForOverride ==
    /\ agent_pc = "check"
    /\ StatusCheckDue
    /\ \E lag \in Lags(server_tz, now) :
         LET r == GetGuardStatus(AGENT_ID, now, now + lag)
             safe == MarkedSafe(r.events)
             block == ToBlock(r.events)
             kept == DOMAIN active_events \ (safe \cup block)
             expired == LocallyExpired(kept, now + lag)
         IN  /\ guard_events' = r.rows
             /\ req' = [op |-> "status", agent_id |-> AGENT_ID, at |-> now]
             /\ resp' = [status |-> r.status, events |-> r.events]
             /\ now' = now + lag
             /\ \E ok_chains \in [block -> SUBSET Chains] :
                  iptables' = iptables \cup UNION
                      {ExecuteBlock(id, active_events[id], ok_chains[id]) : id \in block}
             /\ block_invoked' = block_invoked \cup block
             /\ acted' = acted \cup safe \cup block
             /\ active_events' = Restrict(active_events, kept \ expired)
             /\ last_status_check' = now + lag
             /\ wake_at' = now + lag + Seconds(POLL_INTERVAL)
    /\ agent_pc' = "sleep"
    /\ UNCHANGED <<scan_vars, side_vars>>
    /\ UNCHANGED <<server_tz, subscriptions, guard_agents, queue_guard, tracked, outage>>

\* check_for_override when the request fails: nothing is processed and the
\* clean-up is skipped.
AgentCheckFails ==
    /\ agent_pc = "check"
    /\ StatusCheckDue
    /\ outage' = TRUE
    /\ last_status_check' = now
    /\ wake_at' = now + Seconds(POLL_INTERVAL)
    /\ agent_pc' = "sleep"
    /\ UNCHANGED <<scan_vars, side_vars>>
    /\ UNCHANGED <<now, server_tz, store_vars, active_events, iptables, tracked,
                   acted, block_invoked, req, resp>>

\* main(): time.sleep(POLL_INTERVAL) returns.
AgentWake ==
    /\ agent_pc = "sleep"
    /\ now >= wake_at
    /\ agent_pc' = "geo"
    /\ wake_at' = NoTime
    /\ UNCHANGED <<scan_vars, side_vars>>
    /\ UNCHANGED <<now, server_tz, store_vars, active_events, last_status_check,
                   iptables, tracked, acted, block_invoked, outage, req, resp>>

\* guard_alert_worker.main: BRPOP queue:guard and notify; no row is written.
GuardAlertWorker ==
    /\ queue_guard # <<>>
    /\ queue_guard' = SubSeq(queue_guard, 1, Len(queue_guard) - 1)
    /\ UNCHANGED <<scan_vars, side_vars>>
    /\ UNCHANGED <<now, server_tz, subscriptions, guard_agents, guard_events,
                   agent_vars, req, resp>>

\* ------------------------------------------------- scan pipeline (POST /scan)
\* A domain string is a sequence of characters over a small alphabet.
DomainInputs == { <<"a", ".", "a">>, <<"A", ".", "a", " ">>, <<"a">>, <<" ">> }
ScanTypes == {"typosquat", "leak", "phishing"}
WorkerTypes == {"typosquat", "leak"}
JobStatuses == {"pending", "processing", "completed", "failed"}

\* str.lower()
Lower(d) == [i \in DOMAIN d |-> IF d[i] = "A" THEN "a" ELSE d[i]]

\* str.strip()
RECURSIVE Strip(_)
Strip(d) ==
    IF d = <<>> THEN d
    ELSE IF Head(d) = " " THEN Strip(Tail(d))
    ELSE IF d[Len(d)] = " " THEN Strip(SubSeq(d, 1, Len(d) - 1))
    ELSE d

\* create_scan: domain = scan_request.domain.lower().strip()
NormalizeDomain(d) == Strip(Lower(d))

\* create_scan: `not domain or "." not in domain`
InvalidDomain(domain) == domain = <<>> \/ ~(\E i \in DOMAIN domain : domain[i] = ".")

RequiresScout(cred) == RequiresTier({"free", "scout_pro", "full_stack"}, cred)

\* A gate that lets one request more through than the quota.
CheckScanQuotaOver(cred) ==
    IF subscriptions[cred].scan_quota = 0 THEN 200
    ELSE IF subscriptions[cred].scan_used > subscriptions[cred].scan_quota THEN 402
    ELSE 200

\* check_scan_quota: 402 when scan_used has reached a non-zero scan_quota.
\* (The billing cycle lasts 30 days, so reset_quota_if_needed changes nothing
\* within the instants of the clock.)
CheckScanQuota(cred) ==
    IF subscriptions[cred].scan_quota = 0 THEN 200
    ELSE IF subscriptions[cred].scan_used >= subscriptions[cred].scan_quota THEN 402
    ELSE 200

\* check_scan_quota: `subscription.scan_used += 1` unless the quota is unlimited.
ScanUsedAfter(cred) ==
    IF subscriptions[cred].scan_quota = 0 THEN subscriptions
    ELSE [subscriptions EXCEPT ![cred].scan_used = @ + 1]

\* History of the gate: one more request of a user with a quota was admitted.
AdmittedAfter(cred) ==
    IF subscriptions[cred].scan_quota = 0 THEN admitted
    ELSE [admitted EXCEPT ![cred] = @ + 1]

JobIds == 1..Len(scan_jobs)

NewJob(domain, scan_type) ==
    [domain |-> domain, job_type |-> scan_type, status |-> "pending",
     started_at |-> NoTime, completed_at |-> NoTime, error_message |-> NULL,
     findings |-> 0]

\* A push that loses the payload.
LpushLost(queue, payload) == queue

\* redis_client.lpush(queue_name, payload): the payload becomes the head.
Lpush(queue, payload) == <<payload>> \o queue

\* check_scan_quota's 402 detail.
QuotaExceeded(cred) ==
    [status |-> 402, job_id |-> 0,
     quota_used |-> subscriptions[cred].scan_used,
     quota_limit |-> subscriptions[cred].scan_quota,
     resets_at |-> subscriptions[cred].billing_cycle_end]

\* POST /scan.  The dependencies run first (tier, then quota with its
\* increment); the handler validates the domain, gets or creates the domain
\* row, commits a pending job and pushes its payload.  A failing LPUSH answers
\* 500 and leaves the committed job pending.

\* create_scan, the handler body that runs once the dependencies have let the
\* request through: validation, Domain and ScanJob rows, LPUSH, response.
CreateScanBody(d, scan_type, cred, redis_ok) ==
    LET domain == NormalizeDomain(d)
        job_id == Len(scan_jobs) + 1
    IN  IF InvalidDomain(domain)
        THEN /\ resp' = [status |-> 400, job_id |-> 0]
             /\ UNCHANGED <<domains, scan_jobs, queues>>
        ELSE /\ domains' = IF domain \in DOMAIN domains THEN domains
                           ELSE domains @@ (domain :> [user_id |-> cred])
             /\ scan_jobs' = Append(scan_jobs, NewJob(domain, scan_type))
             /\ IF redis_ok
                THEN /\ queues' = [queues EXCEPT ![scan_type] =
                          Lpush(@, [job_id |-> job_id, domain |-> domain])]
                     /\ resp' = [status |-> 202, job_id |-> job_id]
                ELSE /\ UNCHANGED queues
                     /\ resp' = [status |-> 500, job_id |-> 0]

\* POST /scan handled without another request in between: the dependencies
\* RequiresScout and check_scan_quota, then the handler body.
CreateScanCall(d, scan_type, cred, redis_ok) ==
    LET reject(response) ==
            /\ resp' = response
            /\ UNCHANGED <<domains, scan_jobs, queues, subscriptions, admitted>>
    IN  /\ Len(scan_jobs) < MaxJobs
        /\ req' = [op |-> "scan", scan_type |-> scan_type]
        /\ IF RequiresScout(cred) # 200
           THEN reject([status |-> RequiresScout(cred), job_id |-> 0])
           ELSE IF CheckScanQuota(cred) # 200
           THEN reject(QuotaExceeded(cred))
           ELSE /\ subscriptions' = ScanUsedAfter(cred)
                /\ admitted' = AdmittedAfter(cred)
                /\ CreateScanBody(d, scan_type, cred, redis_ok)
        /\ UNCHANGED <<now, server_tz, guard_agents, guard_events, queue_guard,
                       agent_vars, workers, gate, ghost_vars, alert_vars, probe_vars>>

CreateScan ==
    \E d \in DomainInputs, scan_type \in ScanTypes, cred \in Credentials,
       redis_ok \in BOOLEAN :
        CreateScanCall(d, scan_type, cred, redis_ok)

\* An update_job_status that never reaches the store.
UpdateJobStatusLost(job_id, status, error_message, db_ok) ==
    [ok |-> FALSE, jobs |-> scan_jobs]

\* shared_utils.update_job_status: an unconditional UPDATE of the row with that
\* id; any exception (db_ok = FALSE) is swallowed and reported as False.
UpdateJobStatus(job_id, status, error_message, db_ok) ==
    IF ~db_ok THEN [ok |-> FALSE, jobs |-> scan_jobs]
    ELSE IF job_id \notin JobIds THEN [ok |-> TRUE, jobs |-> scan_jobs]
    ELSE IF status = "processing"
    THEN [ok |-> TRUE,
          jobs |-> [scan_jobs EXCEPT ![job_id].status = status,
                                     ![job_id].started_at = now]]
    ELSE IF status \in {"completed", "failed"}
    THEN [ok |-> TRUE,
          jobs |-> [scan_jobs EXCEPT ![job_id].status = status,
                                     ![job_id].completed_at = now,
                                     ![job_id].error_message = error_message]]
    ELSE [ok |-> TRUE, jobs |-> [scan_jobs EXCEPT ![job_id].status = status]]

\* Worker processes: the id names the queue the process consumes.
WorkerSets == { {"typosquat-1", "leak-1"}, {"typosquat-1", "typosquat-2"} }
QueueOf(w) == IF w = "leak-1" THEN "leak" ELSE "typosquat"

Idle == [pc |-> "idle", job_id |-> 0, remaining |-> 0,
         finding_errors |-> FALSE, store_failed |-> FALSE,
         interrupt_swallowed |-> FALSE]

\* A BRPOP that reads the head, the end LPUSH writes to.
BrpopHead(queue) == [payload |-> Head(queue), rest |-> Tail(queue)]

\* A BRPOP that leaves the payload on the queue.
BrpopPeek(queue) == [payload |-> queue[Len(queue)], rest |-> queue]

\* redis_client.brpop(queue_name): removes the payload at the tail.
Brpop(queue) ==
    [payload |-> queue[Len(queue)], rest |-> SubSeq(queue, 1, Len(queue) - 1)]

\* Worker main loop: BRPOP takes the payload at the tail of the queue, and
\* process_*_job starts with update_job_status(job_id, "processing"), whose
\* result is not looked at.  The scan then has some number of candidates
\* (typosquat variations, code search results) to examine.
WorkerTake(w) ==
    /\ workers[w].pc = "idle"
    /\ queues[QueueOf(w)] # <<>>
    /\ LET popped == Brpop(queues[QueueOf(w)])
       IN  /\ queues' = [queues EXCEPT ![QueueOf(w)] = popped.rest]
           /\ \E db_ok \in BOOLEAN, n \in 0..MaxCandidates :
                /\ scan_jobs' = UpdateJobStatus(popped.payload.job_id, "processing",
                                                NULL, db_ok).jobs
                /\ workers' = [workers EXCEPT ![w] =
                       [pc |-> "scan", job_id |-> popped.payload.job_id,
                        remaining |-> n, finding_errors |-> FALSE,
                        store_failed |-> ~db_ok, interrupt_swallowed |-> FALSE]]
    /\ UNCHANGED <<side_vars, guard_vars, domains>>

\* An examination that lets the exception of a candidate escape.
ExamineRaises(outcome) == outcome

\* resolve_dns / the per-result block of search_github_code: every exception
\* is caught and the candidate is treated as one without finding.
Examine(outcome) == IF outcome = "error" THEN "clean" ELSE outcome

\* save_threat / save_leak: one more row for the job, or nothing (and None)
\* when the store call raises.
SaveFinding(job_id, db_ok) ==
    IF db_ok /\ job_id \in JobIds
    THEN [scan_jobs EXCEPT ![job_id].findings = @ + 1]
    ELSE scan_jobs

\* One candidate of DomainFuzzer.scan / LeakHunter.scan: examine it and, for a
\* finding, save it and send the immediate alert (send_alert catches every
\* exception and returns False).  An exception leaving the examination would
\* end the scan.
WorkerScanStep(w) ==
    /\ workers[w].pc = "scan"
    /\ workers[w].remaining > 0
    /\ \E outcome \in {"clean", "error", "finding"}, db_ok \in BOOLEAN,
          notify_ok \in BOOLEAN :
         LET found == Examine(outcome) = "finding"
         IN  /\ (~found => db_ok /\ notify_ok)
             /\ IF Examine(outcome) = "error"
                THEN /\ workers' = [workers EXCEPT ![w].pc = "raised",
                                                   ![w].finding_errors = TRUE]
                     /\ UNCHANGED scan_jobs
                ELSE /\ scan_jobs' = IF found THEN SaveFinding(workers[w].job_id, db_ok)
                                     ELSE scan_jobs
                     /\ workers' = [workers EXCEPT
                          ![w].remaining = @ - 1,
                          ![w].finding_errors =
                              @ \/ outcome = "error" \/ (found /\ ~notify_ok),
                          ![w].store_failed = @ \/ (found /\ ~db_ok)]
    /\ UNCHANGED <<side_vars, guard_vars, domains, queues>>

\* process_*_job after the scan: "completed" when the scan returned, "failed"
\* with the error text when anything inside the try block raised.
WorkerFinishCall(w, scan_ok, db_ok) ==
    /\ workers[w].pc \in {"scan", "raised"}
    /\ scan_ok => workers[w].pc = "scan" /\ workers[w].remaining = 0
    /\ scan_jobs' = IF scan_ok
                    THEN UpdateJobStatus(workers[w].job_id, "completed", NULL, db_ok).jobs
                    ELSE UpdateJobStatus(workers[w].job_id, "failed", "scan error", db_ok).jobs
    /\ workers' = [workers EXCEPT ![w] = Idle]
    /\ UNCHANGED <<side_vars, guard_vars, domains, queues>>

WorkerFinish(w) ==
    \E scan_ok \in BOOLEAN, db_ok \in BOOLEAN : WorkerFinishCall(w, scan_ok, db_ok)

\* KeyboardInterrupt is not an Exception: it ends the worker wherever it is.
WorkerStop(w) ==
    /\ workers[w].pc # "stopped"
    /\ workers' = [workers EXCEPT ![w] = [Idle EXCEPT !.pc = "stopped"]]
    /\ UNCHANGED <<side_vars, guard_vars, domains, scan_jobs, queues>>

\* SIGINT while a candidate is inside the NS query of resolve_dns or the
\* content decoding of search_github_code: the bare except around it catches
\* the KeyboardInterrupt like any other error and the scan goes on.
WorkerInterruptSwallowed(w) ==
    /\ workers[w].pc = "scan"
    /\ workers[w].remaining > 0
    /\ workers' = [workers EXCEPT ![w].interrupt_swallowed = TRUE]
    /\ UNCHANGED <<side_vars, guard_vars, domains, scan_jobs, queues>>

\* SIGINT delivered to a worker process, wherever it is.
WorkerInterrupt == \E w \in DOMAIN workers : WorkerStop(w) \/ WorkerInterruptSwallowed(w)

Worker(w) ==
    WorkerTake(w) \/ WorkerScanStep(w) \/ WorkerFinish(w) \/ WorkerStop(w)

\* A step of a worker that keeps running while the store answers: every
\* update_job_status and save call of the step succeeds, and no interrupt.
WorkerRuns(w) ==
    \/ WorkerTake(w) /\ ~workers'[w].store_failed
    \/ WorkerScanStep(w) /\ ~workers'[w].store_failed
    \/ \E scan_ok \in BOOLEAN : WorkerFinishCall(w, scan_ok, TRUE)

TyposquatWorker ==
    \E w \in DOMAIN workers : QueueOf(w) = "typosquat" /\ Worker(w)

LeakWorker == \E w \in DOMAIN workers : QueueOf(w) = "leak" /\ Worker(w)

\* update_job_status called on its own, with any job id, status and outcome.
\* ------------------------------------------------- ingress processes
\* POST /scan as handled by ingress processes that share the store.  Inside
\* one process a request runs from its first store access to its response
\* without another one in between (the dependencies and the handler are
\* coroutines without an await), so a process is inside check_scan_quota for
\* at most one request; processes interleave at their store accesses.
IngressProcs == {"ingress-1", "ingress-2"}

GateIdle == [pc |-> "idle", cred |-> "none", scan_used |-> 0]

\* check_scan_quota: get_user_subscription loads the row into the session of
\* the request; reset_quota_if_needed changes nothing within the cycle.
GateLoad(p) ==
    \E cred \in Credentials :
        /\ gate[p].pc = "idle"
        /\ Len(scan_jobs) < MaxJobs
        /\ admitted[FreeUser] < MaxAdmitted
        /\ RequiresScout(cred) = 200
        /\ gate' = [gate EXCEPT ![p] = [pc |-> "loaded", cred |-> cred,
                        scan_used |-> subscriptions[cred].scan_used]]
        /\ UNCHANGED <<now, server_tz, subscriptions, guard_agents, guard_events,
                       queue_guard, agent_vars, req, resp, scan_vars, admitted,
                       ghost_vars, alert_vars, probe_vars>>

\* check_scan_quota from its test to db.commit(), on the loaded object: 402,
\* or `subscription.scan_used += 1` written back as the loaded value plus one;
\* then the handler body.
GateCommit(p) ==
    \E d \in DomainInputs, scan_type \in WorkerTypes, redis_ok \in BOOLEAN :
        LET cred == gate[p].cred
            loaded == gate[p].scan_used
            quota == subscriptions[cred].scan_quota
        IN  /\ gate[p].pc = "loaded"
            /\ Len(scan_jobs) < MaxJobs
            /\ gate' = [gate EXCEPT ![p] = GateIdle]
            /\ req' = [op |-> "scan", scan_type |-> scan_type]
            /\ IF quota # 0 /\ loaded >= quota
               THEN /\ resp' = [status |-> 402, job_id |-> 0,
                                quota_used |-> loaded, quota_limit |-> quota,
                                resets_at |-> subscriptions[cred].billing_cycle_end]
                    /\ UNCHANGED <<subscriptions, admitted, domains, scan_jobs, queues>>
               ELSE /\ subscriptions' =
                          IF quota = 0 THEN subscriptions
                          ELSE [subscriptions EXCEPT ![cred].scan_used = loaded + 1]
                    /\ admitted' = AdmittedAfter(cred)
                    /\ CreateScanBody(d, scan_type, cred, redis_ok)
            /\ UNCHANGED <<now, server_tz, guard_agents, guard_events, queue_guard,
                           agent_vars, workers, ghost_vars, alert_vars, probe_vars>>

Ingress(p) == GateLoad(p) \/ GateCommit(p)

\* ------------------------------------------------------- knock server
\* The clock of the knock server's host runs from GhostEpoch for MaxKnockTime
\* seconds.  A sealed packet is the pair of its key and its plaintext; a
\* plaintext is a sequence of tokens, the colon being a token of its own.
SourceIps == {"10.0.0.5", "10.0.0.9"}
SharedKey == "GHOST_SECRET_KEY"
OtherKey == "other key"
Colon == [colon |-> TRUE]
Digits(n) == [digits |-> n]
Text(t) == [text |-> t]
Nonce == Text("nonce_hex")

\* Timestamps a client may put into a knock: around both ends of the window.
KnockStamps == {GhostEpoch - TIMESTAMP_TOLERANCE - 1, GhostEpoch - TIMESTAMP_TOLERANCE,
                GhostEpoch, GhostEpoch + MaxKnockTime + TIMESTAMP_TOLERANCE,
                GhostEpoch + MaxKnockTime + TIMESTAMP_TOLERANCE + 1}

\* ghost_client: f"{timestamp}:{nonce}:{client_ip}"
KnockText(ts, ip) == <<Digits(ts), Colon, Nonce, Colon, Text(ip)>>

PlainTexts ==
    {KnockText(ts, ip) : ts \in KnockStamps, ip \in SourceIps}
    \cup { <<Text("soon"), Colon, Nonce, Colon, Text("10.0.0.5")>>,
           <<Digits(GhostEpoch), Colon, Text("10.0.0.5")>>,
           <<Digits(GhostEpoch), Colon, Nonce, Colon, Text("fe80"), Colon, Text("1")>> }

\* SecretBox(key).encrypt(plaintext)
Seal(key, plaintext) == [key |-> key, plaintext |-> plaintext]

Ciphertexts ==
    {Seal(SharedKey, pt) : pt \in PlainTexts}
    \cup {Seal(OtherKey, KnockText(GhostEpoch, "10.0.0.5"))}

\* What scapy hands to handle_packet: the IP source and the Raw load, if any.
Packets ==
    [src : SourceIps, raw : {TRUE}, load : Ciphertexts]
    \cup {[src |-> "10.0.0.5", raw |-> FALSE, load |-> Seal(SharedKey, <<>>)]}

CryptoError == <<Text("CryptoError")>>

\* self.box.decrypt(ciphertext): the plaintext under the server's key only.
Decrypt(key, ciphertext) ==
    IF ciphertext.key = key THEN ciphertext.plaintext ELSE CryptoError

\* str.split(':'): the fields between the colons.
RECURSIVE Split(_)
Split(tokens) ==
    IF \A i \in DOMAIN tokens : tokens[i] # Colon THEN <<tokens>>
    ELSE LET i == CHOOSE k \in DOMAIN tokens :
                      tokens[k] = Colon /\ \A j \in 1..(k - 1) : tokens[j] # Colon
         IN  <<SubSeq(tokens, 1, i - 1)>> \o Split(SubSeq(tokens, i + 1, Len(tokens)))

\* int(timestamp_str) raises ValueError unless the field is a number.
IsInt(field) == Len(field) = 1 /\ DOMAIN field[1] = {"digits"}
IntOf(field) == field[1].digits

\* int(time.time())
CurrentTimestamp == ghost_clock \div TicksPerSecond

Abs(x) == IF x < 0 THEN -x ELSE x

\* A window check that ignores the age of the knock.
TimestampInRangeAny(field) == TRUE

\* validate_knock: abs(current_timestamp - knock_timestamp) <= TIMESTAMP_TOLERANCE
TimestampInRange(field) ==
    Abs(CurrentTimestamp - IntOf(field)) <= TIMESTAMP_TOLERANCE

\* A server without rate limit.
RateLimitedNever(source_ip) == FALSE

\* validate_knock: `time.time() - last_knock_time < RATE_LIMIT_WINDOW`, the
\* map answering 0 for a source it does not hold.
RateLimited(source_ip) ==
    ghost_clock - knock_times[source_ip] < Seconds(RATE_LIMIT_WINDOW)

Invalid == [is_valid |-> FALSE, client_ip |-> NULL]

\* No packet has been handled yet.
NoKnock == [packet |-> [src |-> NULL, raw |-> FALSE, load |-> Seal(OtherKey, <<>>)],
            is_valid |-> FALSE, client_ip |-> NULL]

\* validate_knock: (is_valid, client_ip).
ValidateKnock(ciphertext, source_ip) ==
    LET plaintext == Decrypt(SharedKey, ciphertext)
        parts == Split(plaintext)
    IN  IF plaintext = CryptoError THEN Invalid
        ELSE IF Len(parts) # 3 THEN Invalid
        ELSE IF ~IsInt(parts[1]) THEN Invalid
        ELSE IF ~TimestampInRange(parts[1]) THEN Invalid
        ELSE IF parts[3] # <<Text(source_ip)>> THEN Invalid
        ELSE IF RateLimited(source_ip) THEN Invalid
        ELSE [is_valid |-> TRUE, client_ip |-> parts[3][1].text]

\* A map that records the time of every knock, accepted or not.
KnockTimesAlways(result, source_ip) ==
    [knock_times EXCEPT ![source_ip] = ghost_clock]

\* validate_knock: `self.knock_times[source_ip] = time.time()`, reached only
\* when every test has passed.
KnockTimesAfter(result, source_ip) ==
    IF result.is_valid THEN [knock_times EXCEPT ![source_ip] = ghost_clock]
    ELSE knock_times

\* open_firewall: the ipset command is composed and logged; the call that
\* would run it is commented out, so the set itself is not changed.
OpenFirewall(ip) ==
    /\ firewall_cmds' = firewall_cmds \cup {[ip |-> ip, timeout |-> WHITELIST_DURATION]}
    /\ UNCHANGED ghost_whitelist

\* handle_packet for one sniffed packet.
HandlePacketCall(packet) ==
    LET result == ValidateKnock(packet.load, packet.src)
    IN  /\ IF ~packet.raw
           THEN /\ knock' = [packet |-> packet, is_valid |-> FALSE, client_ip |-> NULL]
                /\ UNCHANGED <<knock_times, firewall_cmds, ghost_whitelist, accepted_at>>
           ELSE /\ knock' = [packet |-> packet, is_valid |-> result.is_valid,
                             client_ip |-> result.client_ip]
                /\ knock_times' = KnockTimesAfter(result, packet.src)
                /\ IF result.is_valid
                   THEN /\ OpenFirewall(result.client_ip)
                        /\ accepted_at' = [accepted_at EXCEPT
                                             ![packet.src] = Append(@, ghost_clock)]
                   ELSE UNCHANGED <<firewall_cmds, ghost_whitelist, accepted_at>>
        /\ UNCHANGED <<ghost_clock, guard_vars, scan_vars, quota_vars, alert_vars, probe_vars>>

HandlePacket == \E packet \in Packets : HandlePacketCall(packet)

\* Time passes on the knock server's host.
GhostTick ==
    /\ ghost_clock < Seconds(GhostEpoch + MaxKnockTime)
    /\ ghost_clock' = ghost_clock + 1
    /\ UNCHANGED <<knock_times, ghost_whitelist, firewall_cmds, knock,
                   accepted_at, guard_vars, scan_vars, quota_vars, alert_vars, probe_vars>>

\* ------------------------------ domain fuzzer (workers/typosquat_worker.py)
\* A string is the sequence of its characters.
NoFuzz == [domain |-> <<>>, variations |-> {}]

DomainChars == {"a", "s", "A", ".", " "}

\* The domains a scan can be asked for: any string with a dot in it.
Domains ==
    {d \in UNION {[1..n -> DomainChars] : n \in 1..MaxDomainLen} :
        \E i \in DOMAIN d : d[i] = "."}

COMMON_TLDS ==
    {<<"c", "o", "m">>, <<"n", "e", "t">>, <<"o", "r", "g">>, <<"c", "o">>,
     <<"i", "o">>, <<"a", "p", "p">>, <<"d", "e", "v">>, <<"a", "i">>,
     <<"i", "n", "f", "o">>, <<"b", "i", "z">>, <<"o", "n", "l", "i", "n", "e">>,
     <<"s", "i", "t", "e">>, <<"t", "e", "c", "h">>, <<"s", "t", "o", "r", "e">>}

HOMOGLYPHS ==
    [a |-> <<"4", "@">>, e |-> <<"3">>, i |-> <<"1", "l">>, o |-> <<"0">>,
     s |-> <<"5", "$">>, l |-> <<"1", "i">>, g |-> <<"9">>, b |-> <<"8">>]

keyboard ==
    [q |-> <<"w", "a">>, w |-> <<"q", "e", "s">>, e |-> <<"w", "r", "d">>,
     r |-> <<"e", "t", "f">>, t |-> <<"r", "y", "g">>, y |-> <<"t", "u", "h">>,
     u |-> <<"y", "i", "j">>, i |-> <<"u", "o", "k">>, o |-> <<"i", "p", "l">>,
     p |-> <<"o", "l">>, a |-> <<"q", "s", "z">>, s |-> <<"a", "w", "d", "x">>,
     d |-> <<"s", "e", "f", "c">>, f |-> <<"d", "r", "g", "v">>,
     g |-> <<"f", "t", "h", "b">>, h |-> <<"g", "y", "j", "n">>,
     j |-> <<"h", "u", "k", "m">>, k |-> <<"j", "i", "l">>, l |-> <<"k", "o">>,
     z |-> <<"a", "x">>, x |-> <<"z", "s", "c">>, c |-> <<"x", "d", "v">>,
     v |-> <<"c", "f", "b">>, b |-> <<"v", "g", "n">>, n |-> <<"b", "h", "m">>,
     m |-> <<"n", "j">>]

Prefixes ==
    {<<"w", "w", "w">>, <<"s", "e", "c", "u", "r", "e">>, <<"l", "o", "g", "i", "n">>,
     <<"a", "c", "c", "o", "u", "n", "t">>, <<"v", "e", "r", "i", "f", "y">>,
     <<"u", "p", "d", "a", "t", "e">>}

\* The position of the last dot, 0 without one.
LastDot(text) ==
    IF \E i \in DOMAIN text : text[i] = "."
    THEN CHOOSE i \in DOMAIN text :
            text[i] = "." /\ \A j \in DOMAIN text : text[j] = "." => j <= i
    ELSE 0

\* DomainFuzzer.__init__: the lowered, stripped domain, split at its last dot.
DomainFuzzer(domain) ==
    LET own == Strip(Lower(domain))
        dot == LastDot(own)
    IN  IF dot > 0
        THEN [domain |-> own, name |-> SubSeq(own, 1, dot - 1),
              tld |-> SubSeq(own, dot + 1, Len(own))]
        ELSE [domain |-> own, name |-> own, tld |-> <<"c", "o", "m">>]

\* f"{variant}.{self.tld}"
Dotted(variant, tld) == variant \o <<".">> \o tld

Replaced(name, i, char) == [name EXCEPT ![i] = char]

\* name[:i] with i counted as in the model, from 1: the first i - 1 characters.
Before(name, i) == SubSeq(name, 1, i - 1)
From(name, i) == SubSeq(name, i, Len(name))

Omission(self) ==
    {Dotted(Before(self.name, i) \o From(self.name, i + 1), self.tld) :
        i \in {j \in DOMAIN self.name : Len(self.name) - 1 > 2}}

Repetition(self) ==
    {Dotted(Before(self.name, i) \o <<self.name[i]>> \o From(self.name, i), self.tld) :
        i \in DOMAIN self.name}

Transposition(self) ==
    {Dotted([self.name EXCEPT ![i] = self.name[i + 1], ![i + 1] = self.name[i]],
            self.tld) :
        i \in 1..(Len(self.name) - 1)}

Homoglyph(self) ==
    UNION {{Dotted(Replaced(self.name, i, HOMOGLYPHS[self.name[i]][k]), self.tld) :
                k \in DOMAIN HOMOGLYPHS[self.name[i]]} :
           i \in {j \in DOMAIN self.name : self.name[j] \in DOMAIN HOMOGLYPHS}}

KeyboardTypos(self) ==
    UNION {{Dotted(Replaced(self.name, i, keyboard[self.name[i]][k]), self.tld) :
                k \in 1..2} :
           i \in {j \in DOMAIN self.name : self.name[j] \in DOMAIN keyboard}}

TldSwap(self) == {Dotted(self.name, tld) : tld \in COMMON_TLDS \ {self.tld}}

\* A hyphenation that stops one position early.
HyphenationShort(self) ==
    IF Len(self.name) >= 4
    THEN {Dotted(SubSeq(self.name, 1, i) \o <<"-">> \o From(self.name, i + 1), self.tld) :
            i \in 2..(Len(self.name) - 3)}
    ELSE {}

Hyphenation(self) ==
    IF Len(self.name) >= 4
    THEN {Dotted(SubSeq(self.name, 1, i) \o <<"-">> \o From(self.name, i + 1), self.tld) :
            i \in 2..(Len(self.name) - 2)}
    ELSE {}

SubdomainPrefix(self) ==
    UNION {{Dotted(prefix \o <<"-">> \o self.name, self.tld),
            Dotted(prefix \o self.name, self.tld)} : prefix \in Prefixes}

\* generate_variations: the union of the eight families without the domain
\* itself, as a set (the list is built from a set).
GenerateVariations(self) ==
    (Omission(self) \cup Repetition(self) \cup Transposition(self)
        \cup Homoglyph(self) \cup KeyboardTypos(self) \cup TldSwap(self)
        \cup Hyphenation(self) \cup SubdomainPrefix(self)) \ {self.domain}

\* process_typosquat_job: fuzzer = DomainFuzzer(domain), and the scan starts
\* from fuzzer.generate_variations().
Fuzz ==
    /\ fuzz = NoFuzz
    /\ \E domain \in Domains :
         fuzz' = [domain |-> domain,
                  variations |-> GenerateVariations(DomainFuzzer(domain))]
    /\ UNCHANGED <<guard_vars, scan_vars, quota_vars, ghost_vars, alert_vars,
                   scanned, searched>>

\* The job is over; the worker waits for the next one.
FuzzDone ==
    /\ fuzz # NoFuzz
    /\ fuzz' = NoFuzz
    /\ UNCHANGED <<guard_vars, scan_vars, quota_vars, ghost_vars, alert_vars,
                   scanned, searched>>

\* -------------------------------------- risk scoring (core/risk_engine.py)
\* The weights are kept in hundredths and the age sub-score in thirds of a
\* point, so that the arithmetic stays in the integers; on the inputs below
\* the floating-point sum of calculate_risk truncates to the same integer.
Visibilities == {"public", "private", "internal", "unknown"}
AssetValues == {"production", "staging", "development", "test", "unknown"}
AgeDays == {0, 1, 15, 30, MaxAgeDays}

\* _score_visibility
VisibilityScore(visibility) ==
    CASE visibility = "public" -> 100
      [] visibility = "private" -> 50
      [] visibility = "internal" -> 25
      [] OTHER -> 60

\* _score_age, times three: 100 for a new finding, a linear decay of 50/30
\* per day over thirty days, 50 afterwards.
AgeScore3(age_days) ==
    IF age_days <= 0 THEN 300
    ELSE IF age_days <= 30 THEN 300 - 5 * age_days
    ELSE 150

\* _score_asset_value
AssetScore(asset_value) ==
    CASE asset_value = "production" -> 100
      [] asset_value = "staging" -> 70
      [] asset_value = "development" -> 40
      [] asset_value = "test" -> 30
      [] OTHER -> 60

\* A sum in which visibility counts against the finding.
WeightedScoreInverted(visibility_score, age_score3, asset_score) ==
    (WEIGHT_VISIBILITY * 3 * (100 - visibility_score) + WEIGHT_AGE * age_score3
        + WEIGHT_ASSET_VALUE * 3 * asset_score) \div 300

\* calculate_risk: int(visibility * 0.40 + age * 0.30 + asset * 0.30)
WeightedScore(visibility_score, age_score3, asset_score) ==
    (WEIGHT_VISIBILITY * 3 * visibility_score + WEIGHT_AGE * age_score3
        + WEIGHT_ASSET_VALUE * 3 * asset_score) \div 300

\* _determine_severity
DetermineSeverity(score) ==
    IF score >= THRESHOLD_CRITICAL THEN "CRITICAL"
    ELSE IF score >= THRESHOLD_HIGH THEN "HIGH"
    ELSE IF score >= THRESHOLD_MEDIUM THEN "MEDIUM"
    ELSE "LOW"

\* calculate_risk on a finding of the given visibility, age and asset value.
CalculateRisk(visibility, age_days, asset_value) ==
    LET score == WeightedScore(VisibilityScore(visibility), AgeScore3(age_days),
                               AssetScore(asset_value))
    IN  [score |-> score, severity |-> DetermineSeverity(score)]

\* --------------------------- enrichment and fan-out (workers/smart_alert.py)
GraphServiceStates == {"up", "down", "auth"}
FindingTypes == {"typosquat", "unlisted"}
\* The asset values findings are processed with: the default and one other.
FindingAssets == {"production", "development"}
SeverityLevels == {"low", "medium", "high", "critical"}
ChannelOutcomes == {"delivered", "failed", "raised"}

\* MITREMapper.generate_alert_context: mitre_mapped for the listed types.
MitreMapped(finding_type) == finding_type = "typosquat"

\* A _connect that keeps the driver object it was given.
ConnectKeepsDriver(service) == TRUE

\* GraphManager._connect: whether self.driver is set afterwards (AuthError
\* is raised again, every other failure resets the driver to None).
Connect(service) == service = "up"

NoSmart == [built |-> FALSE, driver |-> FALSE, graph |-> FALSE, unreachable |-> FALSE]

\* What the caller of the fan-out handed in: how each channel would answer.
NoDelivery == [slack |-> NULL, teams_configured |-> FALSE, teams |-> NULL]

NoAlert == [path |-> "none", finding_type |-> NULL, score |-> 0, severity |-> NULL,
            mitre_mapped |-> FALSE, ingested |-> FALSE, fanout |-> <<>>,
            raised |-> FALSE, inputs |-> <<>>, request |-> NoDelivery]

\* The graph service goes down, comes back, or refuses the credentials.
GraphServiceChange ==
    /\ \E service \in GraphServiceStates \ {neo4j} : neo4j' = service
    /\ UNCHANGED <<smart, graph_db, alert, probe_vars, guard_vars, scan_vars, quota_vars,
                   ghost_vars>>

\* SmartAlert.__init__: the graph manager is kept only if it could connect.
SmartAlertInit ==
    /\ \E enable_graph \in BOOLEAN :
         smart' = [built |-> TRUE,
                   driver |-> enable_graph /\ Connect(neo4j),
                   graph |-> enable_graph /\ neo4j # "auth" /\ Connect(neo4j),
                   unreachable |-> enable_graph /\ neo4j = "down"]
    /\ alert' = NoAlert
    /\ UNCHANGED <<neo4j, graph_db, probe_vars, guard_vars, scan_vars, quota_vars, ghost_vars>>

\* GraphManager.create_node / create_relationship / ingest_finding / queries:
\* nothing is done without a driver; with one, a failing call is caught.
GraphOps == {"create_node", "create_relationship", "ingest_finding", "query"}

GraphWrites(op, id) ==
    IF smart.driver /\ neo4j = "up" /\ op # "query" THEN graph_db \cup {id} ELSE graph_db

GraphCall ==
    /\ smart.built
    /\ \E op \in GraphOps, id \in FindingTypes :
         /\ graph_db' = GraphWrites(op, id)
         /\ alert' = [NoAlert EXCEPT !.path = op, !.finding_type = id,
                                     !.ingested = GraphWrites(op, id) # graph_db]
    /\ UNCHANGED <<neo4j, smart, probe_vars, guard_vars, scan_vars, quota_vars, ghost_vars>>

\* A fan-out without the try blocks around the channels.
Unguarded(outcome) == outcome

\* _send_multi_channel_alert: the try block around each channel turns an
\* exception into a logged failure.
Guarded(outcome) == IF outcome = "raised" THEN "failed" ELSE outcome

\* _send_multi_channel_alert: Slack, then Teams if it is configured.  An
\* exception leaving the Slack block would end the call.
SendMultiChannelAlert(slack_outcome, teams_configured, teams_outcome) ==
    LET slack == <<[channel |-> "slack", outcome |-> Guarded(slack_outcome)]>>
        teams == <<[channel |-> "teams", outcome |-> Guarded(teams_outcome)]>>
    IN  IF Guarded(slack_outcome) = "raised"
        THEN [attempts |-> slack, raised |-> TRUE]
        ELSE IF ~teams_configured THEN [attempts |-> slack, raised |-> FALSE]
        ELSE [attempts |-> slack \o teams,
              raised |-> Guarded(teams_outcome) = "raised"]

NoFanout == [attempts |-> <<>>, raised |-> FALSE]

\* process_typosquat_finding / process_leak_finding: score a finding
\* discovered now, map it, ingest it if there is a graph, and fan out for
\* MEDIUM and above.
ProcessFindingCall(finding_type, visibility, asset_value, slack_outcome, teams_configured, teams_outcome) ==
    LET risk == CalculateRisk(visibility, 0, asset_value)
        fanout == risk.severity \in {"CRITICAL", "HIGH", "MEDIUM"}
        sent == IF fanout
                THEN SendMultiChannelAlert(slack_outcome, teams_configured,
                                           teams_outcome)
                ELSE NoFanout
        ingest == smart.graph /\ smart.driver /\ neo4j = "up"
    IN  /\ smart.built
        /\ (~teams_configured => teams_outcome = "failed")
        /\ graph_db' = IF ingest THEN graph_db \cup {finding_type} ELSE graph_db
        /\ alert' = [NoAlert EXCEPT !.path = "finding", !.finding_type = finding_type,
                                    !.score = risk.score, !.severity = risk.severity,
                                    !.mitre_mapped = MitreMapped(finding_type),
                                    !.ingested = ingest, !.fanout = sent.attempts,
                                    !.raised = sent.raised,
                                    !.inputs = <<visibility, 0, asset_value>>,
                                    !.request = IF fanout
                                                THEN [slack |-> slack_outcome,
                                                      teams_configured |-> teams_configured,
                                                      teams |-> teams_outcome]
                                                ELSE NoDelivery]
        /\ UNCHANGED <<neo4j, smart, probe_vars, guard_vars, scan_vars, quota_vars, ghost_vars>>

ProcessFinding ==
    \E finding_type \in FindingTypes, visibility \in Visibilities,
       asset_value \in FindingAssets, slack_outcome \in ChannelOutcomes,
       teams_configured \in BOOLEAN, teams_outcome \in ChannelOutcomes :
        ProcessFindingCall(finding_type, visibility, asset_value, slack_outcome,
                           teams_configured, teams_outcome)

\* process_guard_alert: builds its own SmartAlert without graph and calls the
\* fan-out for every alert.  The action buttons it passes have no "text" key,
\* so a configured Teams channel raises while its card is built.
ProcessGuardAlertCall(severity, slack_outcome, teams_configured) ==
    LET sent == SendMultiChannelAlert(slack_outcome, teams_configured, "raised")
    IN  /\ alert' = [NoAlert EXCEPT !.path = "guard",
                         !.score = IF severity = "critical" THEN 85 ELSE 75,
                         !.severity = severity, !.fanout = sent.attempts,
                         !.raised = sent.raised,
                         !.request = [slack |-> slack_outcome,
                                      teams_configured |-> teams_configured,
                                      teams |-> "raised"]]
        /\ UNCHANGED <<neo4j, smart, graph_db, probe_vars, guard_vars, scan_vars,
                       quota_vars, ghost_vars>>

ProcessGuardAlert ==
    \E severity \in SeverityLevels, slack_outcome \in ChannelOutcomes,
       teams_configured \in BOOLEAN :
        ProcessGuardAlertCall(severity, slack_outcome, teams_configured)

\* RiskScorer.calculate_risk called on a finding of any age.
ScoreFinding ==
    \E visibility \in Visibilities, age_days \in AgeDays, asset_value \in AssetValues :
        LET risk == CalculateRisk(visibility, age_days, asset_value)
        IN  /\ alert' = [NoAlert EXCEPT !.path = "risk", !.score = risk.score,
                                        !.severity = risk.severity,
                                        !.inputs = <<visibility, age_days, asset_value>>]
            /\ UNCHANGED <<neo4j, smart, graph_db, probe_vars, guard_vars, scan_vars,
                           quota_vars, ghost_vars>>

UpdateJobStatusCall ==
    \E job_id \in 1..MaxJobs, status \in JobStatuses, db_ok \in BOOLEAN :
        /\ scan_jobs' = UpdateJobStatus(job_id, status,
                            IF status = "failed" THEN "scan error" ELSE NULL, db_ok).jobs
        /\ UNCHANGED <<side_vars, guard_vars, domains, queues, workers>>

\* ---------------------------------------------------------- specification
Init ==
    /\ now = 0
    /\ server_tz \in Zones
    /\ subscriptions =
         (GuardUser :> [tier |-> "guard_lite", scan_quota |-> 0,
                        agent_quota |-> GUARD_LITE_AGENT_QUOTA, scan_used |-> 0,
                        billing_cycle_end |-> BillingCycle])
         @@ (FreeUser :> [tier |-> "free", scan_quota |-> FREE_SCAN_QUOTA,
                          agent_quota |-> 0, scan_used |-> 0,
                          billing_cycle_end |-> BillingCycle])
    /\ guard_agents = <<>>
    /\ guard_events = <<>>
    /\ queue_guard = <<>>
    /\ active_events = <<>>
    /\ last_status_check = 0
    /\ agent_pc \in {"off", "geo"}
    /\ wake_at = NoTime
    /\ iptables = {}
    /\ tracked = {}
    /\ acted = {}
    /\ block_invoked = {}
    /\ outage = FALSE
    /\ req = NoRequest
    /\ resp = NoResponse
    /\ domains = <<>>
    /\ scan_jobs = <<>>
    /\ queues = [t \in ScanTypes |-> <<>>]
    /\ workers \in {[w \in S |-> Idle] : S \in WorkerSets}
    /\ gate = [p \in IngressProcs |-> GateIdle]
    /\ admitted = [u \in Users |-> 0]
    /\ ghost_clock = Seconds(GhostEpoch)
    /\ knock_times = [ip \in SourceIps |-> 0]
    /\ ghost_whitelist = <<>>
    /\ firewall_cmds = {}
    /\ knock = NoKnock
    /\ accepted_at = [ip \in SourceIps |-> <<>>]
    /\ neo4j = "up"
    /\ smart = NoSmart
    /\ graph_db = {}
    /\ alert = NoAlert
    /\ fuzz = NoFuzz
    /\ scanned = <<>>
    /\ searched = <<>>

vars == <<guard_vars, scan_vars, side_vars>>

NextGuard ==
    \/ Tick
    \/ AgentNoAnomaly
    \/ AgentSendAlert
    \/ AdminResponse
    \/ AgentSkipCheck
    \/ AgentCheckForOverride
    \/ AgentCheckFails
    \/ AgentWake

\* The host agent running against a control plane in a zone without offset
\* changes.
InitGuard ==
    Init /\ server_tz = "UTC" /\ agent_pc = "geo" /\ "leak-1" \in DOMAIN workers

SpecGuard == InitGuard /\ [][NextGuard]_vars

\* The control plane alone, driven by arbitrary clients.
NextControl ==
    \/ Tick
    \/ ClientAlert
    \/ AdminResponse
    \/ PollStatus
    \/ GuardAlertWorker

InitControl == Init /\ agent_pc = "off" /\ "leak-1" \in DOMAIN workers

SpecControl == InitControl /\ [][NextControl]_vars


\* The scan pipeline: ingress and the two workers.
\* --------------------------- DNS resolution (workers/typosquat_worker.py)
\* What dns.resolver.resolve can do for one query.
AOutcomes == {"answer", "nxdomain", "noanswer", "timeout", "error"}
NsOutcomes == {"answer", "error"}
DnsAnswers == [a : AOutcomes, ns : NsOutcomes]

NoDnsInfo == [none |-> TRUE, nameservers |-> FALSE]

\* resolve_dns: the A query, then the NS query inside its own try. NXDOMAIN,
\* NoAnswer, Timeout and every other Exception of the A query are caught in
\* the function and None is returned; the function raises nothing.
ResolveDns(answer) ==
    [raised |-> FALSE,
     value |-> IF answer.a = "answer"
               THEN [none |-> FALSE, nameservers |-> answer.ns = "answer"]
               ELSE NoDnsInfo]

\* retry_on_failure's wrapper around resolve_dns: tries[k] is what the
\* resolver does at the k-th call.
RECURSIVE RetryOnFailure(_, _, _, _, _)
RetryOnFailure(max_retries, tries, retries, current_delay, slept) ==
    IF retries >= max_retries
    THEN [raised |-> FALSE, value |-> NoDnsInfo, attempts |-> retries, slept |-> slept]
    ELSE LET r == ResolveDns(tries[retries + 1])
         IN  IF ~r.raised
             THEN [raised |-> FALSE, value |-> r.value, attempts |-> retries + 1,
                   slept |-> slept]
             ELSE IF retries + 1 >= max_retries
             THEN [raised |-> TRUE, value |-> NoDnsInfo, attempts |-> retries + 1,
                   slept |-> slept]
             ELSE RetryOnFailure(max_retries, tries, retries + 1, current_delay * 2,
                                 slept + current_delay)

\* scan(): one turn of the loop over the variations. A Threat is saved when
\* resolve_dns returned a dictionary.
ScanVariation ==
    /\ Len(scanned) < MaxVariations
    /\ \E tries \in [1..DNS_MAX_RETRIES -> DnsAnswers] :
         LET r == RetryOnFailure(DNS_MAX_RETRIES, tries, 0, DNS_RETRY_DELAY, 0)
         IN  scanned' = Append(scanned,
                 [queries |-> [k \in 1..r.attempts |-> tries[k].a],
                  slept |-> r.slept,
                  raised |-> r.raised,
                  nameservers |-> r.value.nameservers,
                  threat |-> ~r.raised /\ ~r.value.none])
    /\ UNCHANGED <<guard_vars, scan_vars, quota_vars, ghost_vars, alert_vars,
                   fuzz, searched>>

\* scan() returns; the worker waits for the next job.
ScanReturn ==
    /\ scanned # <<>>
    /\ scanned' = <<>>
    /\ UNCHANGED <<guard_vars, scan_vars, quota_vars, ghost_vars, alert_vars,
                   fuzz, searched>>

NextResolve == ScanVariation \/ ScanReturn

\* ------------------------------ GitHub budget (workers/leak_worker.py)
\* Times in this part are whole seconds.
\* What github.get_rate_limit() can give: the remaining core budget, or an
\* exception.
ReadOutcomes ==
    {[ok |-> TRUE, remaining |-> b] : b \in Budgets}
        \cup {[ok |-> FALSE, remaining |-> 0]}

\* What github.search_code() can do.
SearchOutcomes == {"ok", "rate_limit", "secondary", "error"}

\* _check_rate_limit: rate_info["remaining"], 0 when the read fails.
CheckRateLimit(read) == IF read.ok THEN read.remaining ELSE 0

\* _wait_for_rate_limit: the seconds slept. With remaining = 0 the wait is
\* computed as reset_time - time.time(), a datetime minus a float, which
\* raises; the handler of that exception, like that of a failed read, sleeps
\* the fallback time whatever the reset time is.
WaitForRateLimit(read, reset_in) ==
    IF ~read.ok THEN FALLBACK_WAIT
    ELSE IF read.remaining = 0 THEN FALLBACK_WAIT
    ELSE 0

\* search_github_code: one turn of the loop over SENSITIVE_KEYWORDS.
SearchKeyword ==
    /\ Len(searched) < MaxKeywords
    /\ \E first \in ReadOutcomes, second \in ReadOutcomes, third \in ReadOutcomes,
          reset_in \in ResetIns, search \in SearchOutcomes :
         LET low == CheckRateLimit(first) < LOW_BUDGET
             used == IF low THEN <<first, second>> ELSE <<first>>
         IN  /\ (~low => second = first)
             /\ (search # "rate_limit" => third = first)
             /\ searched' = Append(searched,
                    [reads |-> used,
                     reset_in |-> reset_in,
                     slept_before |-> IF low THEN WaitForRateLimit(second, reset_in)
                                      ELSE 0,
                     queried |-> TRUE,
                     slept_after |->
                         CASE search = "ok" -> SEARCH_PAUSE
                           [] search = "rate_limit" -> WaitForRateLimit(third, reset_in)
                           [] search = "secondary" -> SECONDARY_WAIT
                           [] OTHER -> 0])
    /\ UNCHANGED <<guard_vars, scan_vars, quota_vars, ghost_vars, alert_vars,
                   fuzz, scanned>>

\* search_github_code returns; the worker waits for the next job.
SearchReturn ==
    /\ searched # <<>>
    /\ searched' = <<>>
    /\ UNCHANGED <<guard_vars, scan_vars, quota_vars, ghost_vars, alert_vars,
                   fuzz, scanned>>

NextSearch == SearchKeyword \/ SearchReturn

NextJobs ==
    \/ CreateScan
    \/ TyposquatWorker
    \/ LeakWorker

InitJobs ==
    Init /\ server_tz = "UTC" /\ agent_pc = "off" /\ "leak-1" \in DOMAIN workers

SpecJobs == InitJobs /\ [][NextJobs]_vars

\* The scan pipeline with workers that keep running: each main() loop is a
\* process of its own, so each worker that can take a step eventually does.
WorkersRun == \E w \in DOMAIN workers : WorkerRuns(w)

NextLive ==
    \/ CreateScan
    \/ WorkersRun

SpecJobsLive ==
    /\ InitJobs
    /\ [][NextLive]_vars
    /\ \A w \in {"typosquat-1", "leak-1"} : WF_vars(WorkerRuns(w))

\* The scan pipeline under interrupts.
NextInterrupt ==
    \/ CreateScan
    \/ TyposquatWorker
    \/ LeakWorker
    \/ WorkerInterrupt

SpecInterrupt == InitJobs /\ [][NextInterrupt]_vars

\* Two worker processes consuming queue:typosquat.
NextDispatch ==
    \/ CreateScan
    \/ TyposquatWorker

InitDispatch ==
    Init /\ server_tz = "UTC" /\ agent_pc = "off" /\ "typosquat-2" \in DOMAIN workers

SpecDispatch == InitDispatch /\ [][NextDispatch]_vars

\* The job store under direct calls of update_job_status.
NextStore ==
    \/ CreateScan
    \/ UpdateJobStatusCall

SpecStore == InitJobs /\ [][NextStore]_vars

\* Ingress processes sharing the store: POST /scan only.
NextQuota ==
    \E p \in IngressProcs : Ingress(p)

SpecQuota == InitJobs /\ [][NextQuota]_vars

\* The knock server and its clock.
NextKnock ==
    \/ HandlePacket
    \/ GhostTick

SpecKnock == InitJobs /\ [][NextKnock]_vars

\* Enrichment and notification: the alert worker and the library calls.
NextAlerts ==
    \/ GraphServiceChange
    \/ SmartAlertInit
    \/ GraphCall
    \/ ProcessFinding
    \/ ProcessGuardAlert
    \/ ScoreFinding

SpecAlerts == InitJobs /\ [][NextAlerts]_vars

\* A fleet of agents of one or more owners reporting to the control plane:
\* POST /guard/alert from any of FleetIds, with the clock standing still.
FleetAlertCall(agent_id, ip, cred, redis_ok) ==
    /\ Len(guard_events) < MaxFleetEvents
    /\ LET r == ReceiveGuardAlert(agent_id, ip, cred, redis_ok) IN
       /\ guard_agents' = r.agents
       /\ guard_events' = r.events
       /\ queue_guard' = r.queue
       /\ req' = [op |-> "alert", agent_id |-> agent_id]
       /\ resp' = [status |-> r.status, event_id |-> r.event_id]
    /\ UNCHANGED <<scan_vars, side_vars>>
    /\ UNCHANGED <<now, server_tz, subscriptions, agent_vars>>

FleetAlert ==
    \E agent_id \in FleetIds, cred \in Credentials, redis_ok \in BOOLEAN :
        FleetAlertCall(agent_id, FleetIp, cred, redis_ok)

NextFleet == FleetAlert

SpecFleet == InitJobs /\ [][NextFleet]_vars

NextFuzz == Fuzz \/ FuzzDone

SpecFuzz == InitJobs /\ [][NextFuzz]_vars

SpecResolve == InitJobs /\ [][NextResolve]_vars

SpecSearch == InitJobs /\ [][NextSearch]_vars

\* ------------------------------------------------- dead-man's-switch claims
Returned(id) == \E i \in DOMAIN resp.events : resp.events[i].event_id = id

ReturnedToBlock(id) ==
    \E i \in DOMAIN resp.events :
        resp.events[i].event_id = id /\ resp.events[i].should_block

StatusAnswered == req.op = "status" /\ resp.status = 200

\* C1 (P2): an event is blocked exactly when a block verdict is recorded, or no
\* verdict is recorded and the countdown has expired.  The flag is written by
\* verdicts and polls only, so the equivalence is stated for the states in
\* which a verdict on the event or a poll of its agent has just been answered.
Observed(id) ==
    \/ /\ req.op = "response"
       /\ resp.status = 200
       /\ req.event_id = id
    \/ /\ StatusAnswered
       /\ req.agent_id = guard_events[id].agent_id

C1_BlockedIffVerdictOrExpiry ==
    \A id \in EventIds :
        Observed(id) =>
            ( guard_events[id].blocked <=>
                \/ guard_events[id].admin_response = "block"
                \/ /\ guard_events[id].admin_response = NULL
                   /\ now >= guard_events[id].countdown_expires_at )

\* C2: a status poll made at or after the expiry of an event without verdict
\* returns the event with should_block = true and leaves its row blocked.
C2_PollAfterExpiryBlocks ==
    StatusAnswered =>
        \A id \in EventIds :
            ( /\ guard_events[id].agent_id = req.agent_id
              /\ guard_events[id].admin_response = NULL
              /\ req.at >= guard_events[id].countdown_expires_at )
            => (ReturnedToBlock(id) /\ guard_events[id].blocked)

C4_SafeWins ==
    [][ \A id \in EventIds :
          ( guard_events[id].admin_response = "safe" /\ ~guard_events[id].blocked )
          => /\ ~guard_events'[id].blocked
             /\ ~( /\ req'.op = "status"
                   /\ resp'.status = 200
                   /\ \E i \in DOMAIN resp'.events :
                        /\ resp'.events[i].event_id = id
                        /\ resp'.events[i].should_block ) ]_vars

\* C5: a verdict call on an event that already has a verdict leaves the event
\* unchanged, and is rejected with a conflict when the verdicts differ.
C5_VerdictIdempotent ==
    [][ \A id \in EventIds, response \in Verdicts, admin_user \in AdminUsers :
          ( /\ guard_events[id].admin_response # NULL
            /\ AdminResponseCall(id, response, admin_user) )
          => /\ guard_events'[id] = guard_events[id]
             /\ (response # guard_events[id].admin_response => resp'.status = 409) ]_vars

\* C6: safe, blocked and auto_blocked are terminal: no step changes the verdict
\* or the blocked flag of an event that has a verdict or is blocked.
Terminal(event) == event.admin_response # NULL \/ event.blocked

C6_TerminalStates ==
    [][ \A id \in EventIds :
          Terminal(guard_events[id])
          => /\ guard_events'[id].admin_response = guard_events[id].admin_response
             /\ guard_events'[id].blocked = guard_events[id].blocked ]_vars

\* C7: a status poll returns every event of the agent that is unexpired, or has
\* a block verdict, or was not yet acted on by the agent; an event with a block
\* verdict is returned with should_block = true.
C7_PollReturnsPending ==
    StatusAnswered =>
        \A id \in EventIds :
            ( /\ guard_events[id].agent_id = req.agent_id
              /\ \/ guard_events[id].countdown_expires_at > req.at
                 \/ guard_events[id].admin_response = "block"
                 \/ id \notin acted )
            => /\ Returned(id)
               /\ (guard_events[id].admin_response = "block" => ReturnedToBlock(id))

\* C8: an event is created with countdown_expires_at = countdown_started_at +
\* 300 s, and no step changes the two fields of an existing event.
C8_CountdownFixed ==
    [][ \A id \in 1..Len(guard_events') :
          IF id \in EventIds
          THEN /\ guard_events'[id].countdown_started_at =
                      guard_events[id].countdown_started_at
               /\ guard_events'[id].countdown_expires_at =
                      guard_events[id].countdown_expires_at
          ELSE guard_events'[id].countdown_expires_at =
                   guard_events'[id].countdown_started_at + Seconds(300) ]_vars

\* ------------------------------------------------------ scan job claims
TerminalStatuses == {"completed", "failed"}

\* C9 (P1): a job in a terminal status has completed_at set, and no step (in
\* particular no update_job_status call) changes the status of such a job.
C9_TerminalJobsStay ==
    [][ \A id \in JobIds :
          scan_jobs[id].status \in TerminalStatuses
          => /\ scan_jobs[id].completed_at # NoTime
             /\ scan_jobs'[id].status = scan_jobs[id].status ]_vars

\* C10: every change of a job's status is pending -> processing,
\* processing -> completed or processing -> failed, and a job is created
\* pending, so that the statuses a job takes form a prefix of pending,
\* processing, {completed | failed}.
StatusSteps ==
    { <<"pending", "processing">>, <<"processing", "completed">>,
      <<"processing", "failed">> }

C10_StatusProgression ==
    [][ \A id \in 1..Len(scan_jobs') :
          IF id \in JobIds
          THEN \/ scan_jobs'[id].status = scan_jobs[id].status
               \/ <<scan_jobs[id].status, scan_jobs'[id].status>> \in StatusSteps
          ELSE scan_jobs'[id].status = "pending" ]_vars

\* ------------------------------------------------------ scan ingress claims
Enqueued(scan_type, job_id) ==
    \E i \in DOMAIN queues[scan_type] : queues[scan_type][i].job_id = job_id

Is2xx(code) == code >= 200 /\ code <= 299

\* C11 (P6): a POST /scan step answers 2xx only if, in the state it leaves,
\* the job with the returned job_id is persisted with status pending and its
\* payload is on the queue of its scan type.
C11_AcceptedMeansPersisted ==
    [][ \A d \in DomainInputs, scan_type \in ScanTypes, cred \in Credentials,
           redis_ok \in BOOLEAN :
          ( CreateScanCall(d, scan_type, cred, redis_ok) /\ Is2xx(resp'.status) )
          => /\ resp'.job_id \in 1..Len(scan_jobs')
             /\ resp'.job_id \notin JobIds
             /\ scan_jobs'[resp'.job_id].status = "pending"
             /\ scan_jobs'[resp'.job_id].job_type = scan_type
             /\ \E i \in DOMAIN queues'[scan_type] :
                    queues'[scan_type][i].job_id = resp'.job_id ]_vars

\* A scan was accepted and its job is still queued.
C11_Witness ==
    /\ req.op = "scan"
    /\ resp.status = 202
    /\ scan_jobs[resp.job_id].status = "pending"
    /\ Enqueued(req.scan_type, resp.job_id)

\* C12: when the push of the payload fails, the job just created is marked
\* failed with an error and the request is not accepted.
C12_EnqueueFailureFailsJob ==
    [][ \A d \in DomainInputs, scan_type \in ScanTypes, cred \in Credentials :
          ( /\ CreateScanCall(d, scan_type, cred, FALSE)
            /\ Len(scan_jobs') > Len(scan_jobs) )
          => /\ ~Is2xx(resp'.status)
             /\ scan_jobs'[Len(scan_jobs')].status = "failed"
             /\ scan_jobs'[Len(scan_jobs')].error_message # NULL ]_vars

\* ---------------------------------------------------------- dispatch claims
RECURSIVE CopiesIn(_, _)
CopiesIn(queue, job_id) ==
    IF queue = <<>> THEN 0
    ELSE (IF Head(queue).job_id = job_id THEN 1 ELSE 0) + CopiesIn(Tail(queue), job_id)

\* Number of payloads of a job over all queues.
QueuedCopies(job_id) ==
    CopiesIn(queues["typosquat"], job_id) + CopiesIn(queues["leak"], job_id)
        + CopiesIn(queues["phishing"], job_id)

\* Workers that are processing a job.
Holders(job_id) ==
    {w \in DOMAIN workers : workers[w].pc = "scan" /\ workers[w].job_id = job_id}

\* C13: at-most-once dispatch.  An accepted job is enqueued exactly once, in
\* the step that creates it; no later step adds a payload for it; a worker
\* starts on a job only by removing its single payload while no other worker
\* holds it; and no worker starts on a job that is completed or failed.
C13_AtMostOnceDispatch ==
    [][ \A id \in 1..Len(scan_jobs') :
          IF id \notin JobIds
          THEN /\ QueuedCopies(id)' = (IF Is2xx(resp'.status) THEN 1 ELSE 0)
               /\ Holders(id)' = {}
          ELSE /\ QueuedCopies(id)' <= QueuedCopies(id)
               /\ \A w \in Holders(id)' \ Holders(id) :
                     /\ QueuedCopies(id) = 1
                     /\ QueuedCopies(id)' = 0
                     /\ Holders(id) = {}
                     /\ scan_jobs[id].status \notin TerminalStatuses
               /\ Cardinality(Holders(id)') + QueuedCopies(id)' <= 1 ]_vars

\* Both typosquat workers are busy, each with its own job.
C13_Witness ==
    /\ DOMAIN workers = {"typosquat-1", "typosquat-2"}
    /\ workers["typosquat-1"].pc = "scan"
    /\ workers["typosquat-2"].pc = "scan"
    /\ workers["typosquat-1"].job_id # workers["typosquat-2"].job_id

\* C14: per-queue FIFO.  Job ids are given in the order of the pushes, so the
\* job a worker takes from its queue is older than every job still on that
\* queue.
C14_FifoPerQueue ==
    [][ \A w \in DOMAIN workers :
          ( workers[w].pc = "idle" /\ workers'[w].pc = "scan" )
          => \A i \in DOMAIN queues'[QueueOf(w)] :
                workers'[w].job_id < queues'[QueueOf(w)][i].job_id ]_vars

\* A worker has taken the older of two jobs of its queue; the younger one is
\* still queued.
C14_Witness ==
    \E w \in DOMAIN workers :
        /\ workers[w].pc = "scan"
        /\ queues[QueueOf(w)] # <<>>
        /\ \A i \in DOMAIN queues[QueueOf(w)] :
              workers[w].job_id < queues[QueueOf(w)][i].job_id

\* ---- quota and validation claims ----

\* The request passed authentication and the tier gate, and the user's
\* non-zero scan quota is used up.
QuotaExhausted(cred) ==
    /\ RequiresScout(cred) = 200
    /\ subscriptions[cred].scan_quota > 0
    /\ subscriptions[cred].scan_used >= subscriptions[cred].scan_quota

\* C15: the scan-quota gate is atomic: however concurrent scan requests of a
\* user with a non-zero quota interleave, the requests admitted past the
\* gate within the billing cycle never exceed scan_quota, and scan_used
\* equals the number of requests admitted.
C15_QuotaGateAtomic ==
    \A u \in Users :
        subscriptions[u].scan_quota > 0
        => /\ admitted[u] <= subscriptions[u].scan_quota
           /\ subscriptions[u].scan_used = admitted[u]

\* C16: a scan request of a user whose quota is exhausted is answered 402
\* with quota_used, quota_limit and resets_at (the end of the billing cycle);
\* it creates no ScanJob and no Domain, enqueues nothing and leaves scan_used
\* as it was.
C16_QuotaExhaustedRejects ==
    [][\A d \in DomainInputs, scan_type \in ScanTypes, cred \in Credentials,
          redis_ok \in BOOLEAN :
          CreateScanCall(d, scan_type, cred, redis_ok) /\ QuotaExhausted(cred)
          => /\ resp' = [status |-> 402, job_id |-> 0,
                         quota_used |-> subscriptions[cred].scan_used,
                         quota_limit |-> subscriptions[cred].scan_quota,
                         resets_at |-> subscriptions[cred].billing_cycle_end]
             /\ UNCHANGED <<domains, scan_jobs, queues, subscriptions>>]_vars

\* The free-tier user's sixth request was answered 402 with the counters of
\* scenario "quota exhaustion".
C16_Witness ==
    /\ req.op = "scan"
    /\ resp.status = 402
    /\ resp.quota_used = FREE_SCAN_QUOTA
    /\ resp.quota_limit = FREE_SCAN_QUOTA
    /\ resp.resets_at = BillingCycle
    /\ subscriptions[FreeUser].scan_used = FREE_SCAN_QUOTA

\* C17: a scan request with a malformed domain (empty, or without a dot,
\* after lower-casing and trimming) is answered 400 and does not touch the
\* store: no Domain, no ScanJob, no queue entry, scan_used unchanged.
C17_MalformedDomainLeavesStore ==
    [][\A d \in DomainInputs, scan_type \in ScanTypes, cred \in Credentials,
          redis_ok \in BOOLEAN :
          /\ CreateScanCall(d, scan_type, cred, redis_ok)
          /\ RequiresScout(cred) = 200
          /\ CheckScanQuota(cred) = 200
          /\ InvalidDomain(NormalizeDomain(d))
          => /\ resp'.status = 400
             /\ UNCHANGED <<domains, scan_jobs, queues, subscriptions>>]_vars

\* ---- worker error claims ----

\* C18: a pipeline-fatal error (the store unreachable in the middle of a job,
\* an unexpected exception in the worker) ends the job in status failed with
\* the cause as error_message: where the worker can reach the store when it
\* finishes, the job is neither completed nor left processing.
C18_FatalErrorFailsJob ==
    [][\A w \in DOMAIN workers, scan_ok \in BOOLEAN :
          /\ WorkerFinishCall(w, scan_ok, TRUE)
          /\ workers[w].job_id \in JobIds
          /\ ~scan_ok \/ workers[w].store_failed
          => /\ scan_jobs'[workers[w].job_id].status = "failed"
             /\ scan_jobs'[workers[w].job_id].error_message # NULL]_vars

\* The worker is in the middle of a job.
Scanning(w) == workers[w].pc = "scan" /\ workers[w].job_id \in JobIds

\* C19: an error confined to one finding (a DNS error, an unreadable search
\* result, a failed notification) never fails the job: the worker goes on
\* with the remaining candidates, the job's status is not changed by the
\* step, and the job is completed when the scan ends.
C19_FindingErrorKeepsJob ==
    [][\A w \in DOMAIN workers :
          /\ WorkerScanStep(w) /\ workers[w].job_id \in JobIds
             => /\ workers'[w].pc = "scan"
                /\ workers'[w].remaining = workers[w].remaining - 1
                /\ scan_jobs'[workers[w].job_id].status
                     = scan_jobs[workers[w].job_id].status
          /\ WorkerFinishCall(w, TRUE, TRUE) /\ Scanning(w)
             /\ workers[w].finding_errors
             => scan_jobs'[workers[w].job_id].status = "completed"]_vars

\* A worker has met an error on one candidate, has gone on to save a finding
\* of the same job and has examined every candidate.
C19_Witness ==
    \E w \in DOMAIN workers :
        /\ Scanning(w)
        /\ workers[w].finding_errors
        /\ workers[w].remaining = 0
        /\ scan_jobs[workers[w].job_id].status = "processing"
        /\ scan_jobs[workers[w].job_id].findings > 0

\* ---- knock server claims ----

\* C20: every knock the server accepts is sealed under the shared key, has
\* the three fields ts:nonce:ip with an integer ts such that |now - ts| <= 10
\* seconds (now being the server's clock read in whole seconds, as ts is),
\* and claims the packet's own source address; the only address a packet
\* asks the firewall to whitelist is its source address.
C20_AcceptedKnockIsAuthentic ==
    [][\A packet \in Packets :
          HandlePacketCall(packet)
          => /\ knock'.is_valid
                => /\ packet.raw
                   /\ \E ts \in KnockStamps :
                        /\ packet.load = Seal(SharedKey, KnockText(ts, packet.src))
                        /\ Abs(CurrentTimestamp - ts) <= TIMESTAMP_TOLERANCE
                   /\ knock'.client_ip = packet.src
             /\ \A cmd \in firewall_cmds' \ firewall_cmds :
                   knock'.is_valid /\ cmd.ip = packet.src]_vars

\* A knock whose timestamp is exactly ten seconds old has been accepted and
\* the whitelist command for its source address composed.
C20_Witness ==
    /\ knock.is_valid
    /\ knock.packet.load
         = Seal(SharedKey, KnockText(GhostEpoch - TIMESTAMP_TOLERANCE, knock.packet.src))
    /\ knock.client_ip = knock.packet.src
    /\ [ip |-> knock.packet.src, timeout |-> WHITELIST_DURATION] \in firewall_cmds

\* C21: a knock is rejected when a knock of the same source IP was accepted
\* less than 5 seconds earlier: whatever packets arrive in between, any two
\* accepted knocks of one source are at least 5 seconds apart.
C21_AcceptedKnocksApart ==
    \A ip \in SourceIps :
        \A i, j \in DOMAIN accepted_at[ip] :
            i < j => accepted_at[ip][j] - accepted_at[ip][i] >= Seconds(RATE_LIMIT_WINDOW)

\* One source has had two knocks accepted.
C21_Witness ==
    \E ip \in SourceIps : Len(accepted_at[ip]) = 2

\* The verdict of the last packet handled.
Rejected == knock.packet.src \in SourceIps /\ ~knock.is_valid

\* C22: a rejected knock has no effect: a packet dropped for decrypt failure,
\* malformed payload, timestamp outside the window, IP mismatch or rate limit
\* changes neither the firewall whitelist (nor any command to it) nor the
\* per-source last-knock timestamps.
C22_RejectedKnockNoEffect ==
    [][\A packet \in Packets :
          HandlePacketCall(packet) /\ ~knock'.is_valid
          => UNCHANGED <<knock_times, ghost_whitelist, firewall_cmds>>]_vars

\* A well-formed knock has been dropped by the rate limit 3 seconds after an
\* accepted knock of the same source, whose timestamp is still the recorded
\* one.
C22_Witness ==
    /\ Rejected
    /\ \E ts \in KnockStamps :
         /\ knock.packet.load = Seal(SharedKey, KnockText(ts, knock.packet.src))
         /\ Abs(CurrentTimestamp - ts) <= TIMESTAMP_TOLERANCE
    /\ knock_times[knock.packet.src] = ghost_clock - Seconds(3)
    /\ accepted_at[knock.packet.src] = <<ghost_clock - Seconds(3)>>

\* C23: on every accepted knock the claimed IP is inserted into the host
\* firewall whitelist with a 60-second expiry: the whitelist holds the
\* address afterwards, expiring 60 seconds from now.
C23_AcceptedKnockWhitelisted ==
    [][\A packet \in Packets :
          HandlePacketCall(packet) /\ knock'.is_valid
          => /\ packet.src \in DOMAIN ghost_whitelist'
             /\ ghost_whitelist'[packet.src] = ghost_clock + Seconds(WHITELIST_DURATION)]_vars

\* ---- block action claims ----

\* The two drop rules for one address: traffic from it (INPUT) and to it
\* (OUTPUT).
DropRules(id, ip) ==
    {[chain |-> c, ip |-> ip, target |-> "DROP", event |-> id] : c \in {"INPUT", "OUTPUT"}}

BelowMedium(severity) == severity \in {"LOW", "low"}

\* C25: no message is emitted to any notification channel for a finding or
\* alert whose severity is below medium, on every path that reaches the
\* multi-channel fan-out.
C25_NoFanoutBelowMedium ==
    alert.fanout # <<>> => ~BelowMedium(alert.severity)

Attempted(fanout, channel) == \E i \in DOMAIN fanout : fanout[i].channel = channel

\* C26: in one fan-out call a delivery failure on one enabled channel
\* (timeout, HTTP error, exception while the message is built) never
\* prevents the attempt on the other enabled channel and never reaches the
\* caller.
C26_ChannelFailureIsolated ==
    alert.request # NoDelivery
    => /\ ~alert.raised
       /\ Attempted(alert.fanout, "slack")
       /\ alert.request.teams_configured => Attempted(alert.fanout, "teams")

\* The Slack message could not be built, and the Teams message of the same
\* call was delivered.
C26_Witness ==
    /\ alert.path = "finding"
    /\ alert.request.slack = "raised"
    /\ ~alert.raised
    /\ alert.fanout = <<[channel |-> "slack", outcome |-> "failed"],
                        [channel |-> "teams", outcome |-> "delivered"]>>

\* C27: if the graph service was unreachable when the ingester was
\* initialised, every later graph operation is a no-op that returns without
\* raising, and finding enrichment still computes the risk score and the
\* framework mapping and performs the fan-out.
C27_GraphDownIsNoOp ==
    [][smart.unreachable /\ smart'.unreachable
       => /\ graph_db' = graph_db
          /\ alert'.path \in GraphOps \cup {"finding"}
             => /\ ~alert'.raised
                /\ ~alert'.ingested
          /\ alert'.path = "finding"
             => LET risk == CalculateRisk(alert'.inputs[1], 0, alert'.inputs[3])
                IN  /\ alert'.score = risk.score
                    /\ alert'.severity = risk.severity
                    /\ alert'.mitre_mapped = MitreMapped(alert'.finding_type)
                    /\ ~BelowMedium(risk.severity)
                       => Attempted(alert'.fanout, "slack")]_vars

\* The graph service was down when the ingester was built and is up again;
\* a finding has been scored, mapped and fanned out, and the graph is empty.
C27_Witness ==
    /\ smart.unreachable
    /\ neo4j = "up"
    /\ alert.path = "finding"
    /\ alert.mitre_mapped
    /\ alert.score > 0
    /\ Attempted(alert.fanout, "slack")
    /\ graph_db = {}

SeverityRank(severity) ==
    CASE severity = "CRITICAL" -> 3
      [] severity = "HIGH" -> 2
      [] severity = "MEDIUM" -> 1
      [] OTHER -> 0

\* The score of one finding does not exceed the score of another.
NotAbove(low, high) ==
    /\ low.score <= high.score
    /\ SeverityRank(low.severity) <= SeverityRank(high.severity)

\* C29: the risk score is monotone in each sub-score with the other two
\* fixed: a finding with a higher visibility, age or asset sub-score than
\* the finding just scored has neither a lower integer score nor a lower
\* severity bucket.
C29_RiskScoreMonotone ==
    alert.path = "risk"
    => LET visibility == alert.inputs[1]
           age_days == alert.inputs[2]
           asset_value == alert.inputs[3]
           scored == [score |-> alert.score, severity |-> alert.severity]
       IN  /\ \A v \in Visibilities :
                VisibilityScore(v) >= VisibilityScore(visibility)
                => NotAbove(scored, CalculateRisk(v, age_days, asset_value))
           /\ \A d \in AgeDays :
                AgeScore3(d) >= AgeScore3(age_days)
                => NotAbove(scored, CalculateRisk(visibility, d, asset_value))
           /\ \A a \in AssetValues :
                AssetScore(a) >= AssetScore(asset_value)
                => NotAbove(scored, CalculateRisk(visibility, age_days, a))

\* A private finding has been scored, below the same finding made public
\* and above the same finding on an internal network.
C29_Witness ==
    /\ alert.path = "risk"
    /\ alert.inputs = <<"private", 15, "staging">>
    /\ alert.score < CalculateRisk("public", 15, "staging").score
    /\ alert.score > CalculateRisk("internal", 15, "staging").score

\* ---- domain fuzzer claims ----

Dots(text) == Cardinality({i \in DOMAIN text : text[i] = "."})

\* C28: for every domain with a dot in it, multi-label names and names with
\* an empty first label included, the generated variations never contain
\* the domain, and every variation has exactly one dot with a non-empty
\* label before it.
C28_VariationsWellFormed ==
    \A variation \in fuzz.variations :
        /\ variation # fuzz.domain
        /\ Dots(variation) = 1
        /\ variation[1] # "."

\* ---- agent override claims ----

RulesOf(rules, id) == {rule \in rules : rule.event = id}

ProcessedBy(id) ==
    \E w \in DOMAIN workers : workers[w].pc = "scan" /\ workers[w].job_id = id

\* C31: a finding row is created only for an existing job, by the worker
\* processing that job, and only while the status of the job is processing:
\* never before the job was moved to processing, never after it reached
\* completed or failed.
C31_FindingsOnlyWhileProcessing ==
    [][\A id \in JobIds :
         scan_jobs'[id].findings > scan_jobs[id].findings
         => /\ ProcessedBy(id)
            /\ scan_jobs[id].status = "processing"]_vars

\* ---- job liveness claims ----

Accepted(id) ==
    /\ id \in JobIds
    /\ scan_jobs[id].job_type \in WorkerTypes
    /\ Enqueued(scan_jobs[id].job_type, id)

\* C32: while the worker of a queue keeps running and queue and store stay
\* reachable, every job accepted on that queue is eventually popped by the
\* worker and eventually reaches status completed or failed.
C32_AcceptedJobTerminates ==
    \A id \in 1..MaxJobs :
        /\ Accepted(id) ~> (id \in JobIds /\ Holders(id) # {})
        /\ Accepted(id) ~> (id \in JobIds /\ scan_jobs[id].status \in TerminalStatuses)

\* Every job the ingress can accept has been popped and completed, the last
\* one by the leak worker with a finding.
C32_Witness ==
    /\ Len(scan_jobs) = MaxJobs
    /\ \A id \in JobIds : scan_jobs[id].status = "completed"
    /\ scan_jobs[MaxJobs].job_type = "leak"
    /\ scan_jobs[MaxJobs].findings > 0
    /\ \A w \in DOMAIN workers : workers[w].pc = "idle"

\* ---- interrupt claims ----

\* C33: a worker that receives SIGINT while it processes a job stops, and the
\* job is abandoned: the step changes neither the status of any job nor any
\* queue (the job stays processing and its payload is not put back).
C33_InterruptStopsWorker ==
    [][\A w \in DOMAIN workers :
         ( /\ workers[w].pc = "scan"
           /\ \/ workers'[w].pc = "stopped"
              \/ workers'[w].interrupt_swallowed /\ ~workers[w].interrupt_swallowed )
         => /\ workers'[w].pc = "stopped"
            /\ scan_jobs' = scan_jobs
            /\ queues' = queues]_vars

\* ---- agent alert claims ----

\* C34: an anomaly the agent detects is posted to /guard/alert as send_alert
\* builds the request.  When the control plane is reachable and the agent's
\* owner is entitled to guard, the ingress answers 202, the event exists and
\* the agent records the returned event id with the local expiry now + 300 s;
\* when the alert is not accepted the agent records nothing.
C34_AnomalyAcceptedAndRecorded ==
    [][\A ip \in TargetIps \cup {NULL}, redis_ok \in BOOLEAN, reachable \in BOOLEAN :
         AgentSendAlertCall(ip, SentCredentials, redis_ok, reachable)
         => LET accepted == reachable /\ resp'.status = 202
            IN  /\ ( /\ reachable
                     /\ redis_ok
                     /\ RequiresGuard(GuardUser) = 200
                     /\ CheckAgentQuota(GuardUser) = 200 )
                   => accepted
                /\ accepted
                   => /\ resp'.event_id \in 1..Len(guard_events')
                      /\ resp'.event_id \notin DOMAIN active_events
                      /\ resp'.event_id \in DOMAIN active_events'
                      /\ active_events'[resp'.event_id].expires_at
                            = now + Seconds(COUNTDOWN_DURATION)
                /\ ~accepted => active_events' = active_events]_vars

\* ---- replay claims ----

\* C35: a sealed knock packet is accepted at most once: when the packet that
\* was accepted last is sent again from the same source, it is rejected,
\* also inside the timestamp window and after the rate-limit window.
C35_ReplayRejected ==
    [][\A packet \in Packets :
         ( /\ HandlePacketCall(packet)
           /\ knock.is_valid
           /\ knock.packet = packet )
         => ~knock'.is_valid]_vars

\* ---- hyphenation claims ----
\* The candidate with '-' before the i-th character of the label, counted from 0.
HyphenAt(self, i) ==
    Dotted(SubSeq(self.name, 1, i) \o <<"-">> \o From(self.name, i + 1), self.tld)

HyphenatedUpTo(back) ==
    LET self == DomainFuzzer(fuzz.domain)
    IN  /\ Len(self.name) >= 4
          => \A i \in 2..(Len(self.name) - back) : HyphenAt(self, i) \in fuzz.variations
        /\ Len(self.name) < 4
          => \A i \in 0..Len(self.name) : HyphenAt(self, i) \notin fuzz.variations

\* C38 as stated: for a label of length n >= 4 there is a candidate with '-'
\* at every position i with 2 <= i <= n-1, and none for a shorter label.
C38_HyphenAtEveryPosition == fuzz # NoFuzz => HyphenatedUpTo(1)

\* C38 amended: for a label of length n >= 4 there is a candidate with '-'
\* at every position i with 2 <= i <= n-2 (at least two characters on each
\* side of the hyphen), and none for a shorter label.
C38_HyphenTwoFromEachEnd == fuzz # NoFuzz => HyphenatedUpTo(2)

C38_Witness ==
    /\ fuzz # NoFuzz
    /\ LET self == DomainFuzzer(fuzz.domain)
       IN  /\ Len(self.name) = 4
           /\ HyphenAt(self, 2) \in fuzz.variations
           /\ HyphenAt(self, 3) \notin fuzz.variations

\* ---- agent quota claims ----
\* The active agents registered to a user.
ActiveAgentsOf(user) ==
    {a \in DOMAIN guard_agents : guard_agents[a].user_id = user /\ guard_agents[a].active}

\* C39: an alert from an agent that is already registered to the caller is
\* never answered 402, also when the caller's active agents equal agent_quota.
C39_RegisteredAgentNotRejected ==
    [][\A agent_id \in FleetIds, redis_ok \in BOOLEAN :
         ( /\ FleetAlertCall(agent_id, FleetIp, GuardUser, redis_ok)
           /\ agent_id \in ActiveAgentsOf(GuardUser) )
         => resp'.status # 402]_vars

\* ---- DNS resolution claims ----
\* C36: a variation whose A query times out is queried again, up to
\* DNS_MAX_RETRIES more times and after a first pause of DNS_RETRY_DELAY
\* seconds, before it is discarded; a variation whose query ended in NXDOMAIN
\* or no answer is discarded without a Threat.
C36_TimeoutRetriedBeforeDiscard ==
    \A i \in DOMAIN scanned :
        LET e == scanned[i]
            last == e.queries[Len(e.queries)]
        IN  /\ (~e.threat /\ last = "timeout")
               => /\ Len(e.queries) = 1 + DNS_MAX_RETRIES
                  /\ e.slept >= DNS_RETRY_DELAY
            /\ last \in {"nxdomain", "noanswer"} => ~e.threat

\* ---- leak search claims ----
\* The budget the worker read last before it issued the query.
LastRead(e) == CheckRateLimit(e.reads[Len(e.reads)])

\* C37: before each keyword query the remaining budget is read; when it is
\* below LOW_BUDGET the worker sleeps until the reset time before the query,
\* so no query is issued on a last-read budget below LOW_BUDGET without that
\* sleep.
C37_LowBudgetSleepsUntilReset ==
    \A i \in DOMAIN searched :
        LET e == searched[i]
        IN  /\ Len(e.reads) >= 1
            /\ (CheckRateLimit(e.reads[1]) < LOW_BUDGET \/ LastRead(e) < LOW_BUDGET)
               => (e.queried => e.slept_before >= e.reset_in)

====
